---- MODULE Spec2Model ----
(***************************************************************************)
(* featureflow: a model class (BaseModel) bundles Features; process()      *)
(* compiles them into a Graph of Nodes, prunes the dead ones, and streams  *)
(* chunks from the roots to the DataWriters; a Feature fetch reads the     *)
(* stored entry or computes it from a partial graph.                       *)
(*                                                                         *)
(* Strings are sequences of one-character strings, so that the key builder *)
(* really joins and splits.  A chunk is a positive number (the ordinal the *)
(* source gave it); None is 0.                                             *)
(***************************************************************************)
EXTENDS Integers, Sequences, FiniteSets, TLC

VARIABLES
    features,    \* the model class: feature key -> Feature declaration
    id_provider, \* the settings' id provider: its class and its counter
    database,    \* db name -> the InMemoryDatabase._dict of that database
    graph,       \* the Graph of the operation under way
    queue,       \* the deque of Graph.process
    generators,  \* the root generators izip_longest advances
    pc,          \* where the operation under way stands
    op,          \* the operation under way (Model.process or a fetch)
    result,      \* how the last operation ended
    hist         \* history of the operation: calls, exceptions, snapshot

vars == <<features, id_provider, database, graph, queue, generators, pc, op,
          result, hist>>

----------------------------------------------------------------------------
(* Bounds of the model *)

\* the most chunks a root source yields for one input
MaxChunks == 1
\* the most operations (process or fetch) of one behaviour
MaxOps == 2
\* the most keys the caller deletes in one behaviour
MaxDeletes == 1
\* the most chunks a root source yields in a run that is recorded
MaxRunChunks == 2

\* the fields of the model class, in declaration order
FeatureKeys == <<"a", "b", "c">>
FeatureSet == {FeatureKeys[i] : i \in 1..Len(FeatureKeys)}
\* db1 is the database of the model's settings, db2 one a Feature may name
\* through its own persistence argument
DBs == {"db1", "db2"}
ModelDb == "db1"
None == 0

----------------------------------------------------------------------------
(* Sequences *)

RECURSIVE SeqToSet(_)
SeqToSet(s) == IF s = <<>> THEN {} ELSE {Head(s)} \cup SeqToSet(Tail(s))

RECURSIVE RemoveFirst(_, _)
\* list.remove(x) on a list known to hold x
RemoveFirst(s, x) ==
    IF s = <<>> THEN <<>>
    ELSE IF Head(s) = x THEN Tail(s)
    ELSE <<Head(s)>> \o RemoveFirst(Tail(s), x)

RECURSIVE Reverse(_)
Reverse(s) == IF s = <<>> THEN <<>> ELSE Append(Reverse(Tail(s)), Head(s))

\* the restriction of function f to the set S
Restrict(f, S) == [x \in S |-> f[x]]

----------------------------------------------------------------------------
(* data.py: StringDelimitedKeyBuilder *)

seperator == ":"

\* two texts put end to end with nothing between them
JoinBare(x, y) == x \o y

\* sep.join of two texts: the separator stands between them
Join(x, y) == x \o <<seperator>> \o y

RECURSIVE build(_)
\* ':'.join(str(x) for x in args)
build(args) ==
    IF args = <<>> THEN <<>>
    ELSE IF Len(args) = 1 THEN args[1]
    ELSE Join(args[1], build(Tail(args)))

RECURSIVE decompose(_)
\* composed.split(':')
decompose(composed) ==
    IF \A i \in 1..Len(composed) : composed[i] # seperator THEN <<composed>>
    ELSE LET i == CHOOSE j \in 1..Len(composed) :
                      /\ composed[j] = seperator
                      /\ \A k \in 1..(j - 1) : composed[k] # seperator
         IN  <<SubSeq(composed, 1, i - 1)>>
                 \o decompose(SubSeq(composed, i + 1, Len(composed)))

\* str(x) of an id or a feature key
Str(x) == <<x>>

----------------------------------------------------------------------------
(* data.py: InMemoryDatabase.  An entry is the StringIO still being       *)
(* written (closed = FALSE; its bytes are held by the writer that owns the *)
(* stream) or, once closed, the bytes written.                             *)

EmptyDb == <<>>

\* key in database
Contains(d, key) == key \in DOMAIN d

\* write_stream: self._dict[key] = sio
write_stream(d, key) ==
    [k \in DOMAIN d \cup {key} |->
        IF k = key THEN [closed |-> FALSE, buf |-> <<>>] ELSE d[k]]

\* hijacked_close: self._dict[key] = sio.read(), buf being what was written
\* to the StringIO since write_stream returned it
stream_close(d, key, buf) ==
    [k \in DOMAIN d \cup {key} |->
        IF k = key THEN [closed |-> TRUE, buf |-> buf] ELSE d[k]]

\* read_stream on a present key raises: IOWithLength takes len(content), and
\* the entry of a stream that was never closed is the StringIO itself, an
\* instance without __len__ (AttributeError)
ReadRaises(d, key) == ~d[key].closed

\* the AttributeError of that len(), "StringIO instance has no attribute
\* '__len__'", told apart from the AttributeError of Feature.__call__,
\* "... cannot be computed"
NoLenError == "AttributeError: __len__"

\* read_stream(key).read() on a present key whose stream was closed
read_stream(d, key) == d[key].buf

\* del self._dict[key] on a present key
delitem(d, key) == Restrict(d, DOMAIN d \ {key})

\* iter_ids: the first part of every key, each id once
iter_ids(d) == {decompose(key)[1] : key \in DOMAIN d}

----------------------------------------------------------------------------
(* extractor.py: Node.  A node is named by the key it has in the Graph:    *)
(* <<f, "x">> is the extractor of feature f (graph[f.key]), <<f, "encoder">>*)
(* and <<f, "writer">> are graph['f_encoder'] and graph['f_writer'].       *)

Roles == <<"x", "encoder", "writer">>
\* the keys in the order the Graph is walked (values(), itervalues())
NodeOrder ==
    [i \in 1..(3 * Len(FeatureKeys)) |->
        <<FeatureKeys[((i - 1) \div 3) + 1], Roles[((i - 1) % 3) + 1]>>]

\* id(None): what a root's process() records as its pusher
NoPusher == <<"None", "None">>

\* the extractor classes a Feature may name
Extractors == {"Node", "Aggregator", "Broken", "BrokenTypeError"}

\* Node.version: the class name
version(cls) ==
    CASE cls = "Node" -> <<"N">>
      [] cls = "Aggregator" -> <<"A">>
      [] cls = "Broken" -> <<"B">>
      [] cls = "BrokenTypeError" -> <<"T">>
      [] cls = "TheLastWord" -> <<"W">>
      [] cls = "TimestampEmitter1" -> <<"1">>
      [] cls = "TimestampEmitter2" -> <<"2">>
      [] OTHER -> <<"D">>

NewNode(cls, needs) ==
    [cls |-> cls, needs |-> needs, listeners |-> <<>>, cache |-> None,
     finalized_dependencies |-> {}, enqueued_dependencies |-> {},
     first_chunk |-> TRUE, db |-> "", key |-> <<>>, stream |-> "none",
     written |-> <<>>]

is_root(node) == node.needs = <<>>
is_leaf(node) == node.listeners = <<>>

dependency_count(node) == Len(node.needs)

\* a test that is content with one dependency that is final
_finalized_any(node) ==
    /\ Cardinality(node.finalized_dependencies)
           >= (IF dependency_count(node) = 0 THEN 0 ELSE 1)
    /\ Cardinality(node.enqueued_dependencies) >= dependency_count(node)

\* Node._finalized
_finalized(node) ==
    /\ Cardinality(node.finalized_dependencies) >= dependency_count(node)
    /\ Cardinality(node.enqueued_dependencies) >= dependency_count(node)

\* The state a run works on: the node objects (g), the deque (q), the
\* databases (db), the nodes whose _process was entered (invoked), the
\* exceptions raised inside a _process (thrown) and the exception now
\* propagating (exc).  What a writer node wrote is its field written.
NoExc == "none"

\* one entry of the record of a run: ev is "push" (an envelope put on the
\* queue by node key), "deliver" (the envelope of key handed to subscriber
\* to), "first_chunk" or "last_chunk" (the hook of node key was called)
Event(ev, key, fname, data, to) ==
    [ev |-> ev, key |-> key, fname |-> fname, data |-> data, to |-> to]

\* the record is kept only in behaviours that ask for it
Log(S, e) == IF S.trace THEN [S EXCEPT !.log = Append(@, e)] ELSE S

\* Node._push: queue.appendleft((id(self), 'process', {data: data}))
_push(S, n, data) ==
    Log([S EXCEPT !.q =
             <<[key |-> n, fname |-> "process", data |-> data]>> \o @],
        Event("push", n, "process", data, NoPusher))

\* DataWriter._finalize closes the stream it opened; the other classes pass
_finalize(S, n) ==
    LET node == S.g[n]
    IN  IF node.cls = "DataWriter" /\ node.stream = "open"
        THEN [S EXCEPT !.g[n].stream = "closed",
                       !.db[node.db] =
                           stream_close(@, node.key, node.written)]
        ELSE S

\* Node._finish(pusher, queue)
_finish(S, n, pusher) ==
    LET S1 == _finalize(S, n)
        S2 == IF pusher \in SeqToSet(S1.g[n].needs)
              THEN [S1 EXCEPT !.g[n].finalized_dependencies = @ \cup {pusher}]
              ELSE S1
    IN  IF pusher # NoPusher THEN S2
        ELSE Log([S2 EXCEPT !.q =
                      <<[key |-> n, fname |-> "_finish", data |-> None]>>
                          \o @],
                 Event("push", n, "_finish", None, NoPusher))

\* the chunk TheLastWord yields from _last_chunk
FinalChunk == 9

\* self._last_chunk(): iter(()) unless the class overrides it
_last_chunk(node) ==
    IF node.cls = "TheLastWord" THEN <<FinalChunk>> ELSE <<>>

RECURSIVE PushAll(_, _, _)
\* for chunk in chunks: yield self._push(chunk, queue=queue)
PushAll(S, n, chunks) ==
    IF chunks = <<>> THEN S
    ELSE PushAll(_push(S, n, Head(chunks)), n, Tail(chunks))

\* the end of Node.process: a root, or a node all of whose dependencies are
\* final, emits _last_chunk (empty), its finish envelope and a None push
ProcessTail(S, n) ==
    IF is_root(S.g[n]) \/ _finalized(S.g[n])
    THEN _push(_finish(PushAll(Log(S, Event("last_chunk", n, "", None,
                                            NoPusher)),
                               n, _last_chunk(S.g[n])),
                       n, NoPusher),
               n, None)
    ELSE S

Raise(S, n, exc) ==
    [S EXCEPT !.exc = exc, !.thrown = @ \cup {<<n, exc>>}]

\* TimestampEmitter(version='1') and TimestampEmitter(version='2'), the one
\* class of the tests with its two extractor_args: _process yields
\* self._version, here as the chunk the version is written with
Emitted == [c \in {"TimestampEmitter1", "TimestampEmitter2"} |->
               IF c = "TimestampEmitter1" THEN 11 ELSE 12]

\* self._process(inp) of each class, with the pushes Node.process makes of
\* what it yields
_process(S, n, inp) ==
    LET node == S.g[n]
        S1 == [S EXCEPT !.invoked = @ \cup {n}]
    IN  CASE node.cls = "Broken" -> Raise(S1, n, "Exception")
          [] node.cls = "BrokenTypeError" -> Raise(S1, n, "TypeError")
          [] node.cls = "DataWriter" ->
                LET S2 == IF node.stream = "none"
                          THEN [S1 EXCEPT !.g[n].stream = "open",
                                          !.db[node.db] =
                                              write_stream(@, node.key)]
                          ELSE S1
                IN  [S2 EXCEPT !.g[n].written = Append(@, inp)]
          [] node.cls = "StringIODataWriter" ->
                [S1 EXCEPT !.g[n].written = Append(@, inp)]
          [] node.cls \in DOMAIN Emitted -> _push(S1, n, Emitted[node.cls])
          [] OTHER -> _push(S1, n, inp)

\* the hook stays as it is: self._first_chunk is never replaced
FirstChunkKept(node) == node

\* self._first_chunk = lambda x: x
FirstChunkUsed(node) == [node EXCEPT !.first_chunk = FALSE]

\* inp = self._first_chunk(inp): the hook of the class while first_chunk is
\* set, the identity after
_first_chunk(S, n, inp) ==
    LET S1 == IF S.g[n].first_chunk
              THEN Log(S, Event("first_chunk", n, "", inp, NoPusher))
              ELSE S
    IN  [S1 EXCEPT !.g[n] = FirstChunkUsed(@)]

\* the classes that derive from Aggregator
Aggregators == {"Aggregator", "TimestampEmitter1", "TimestampEmitter2"}

\* the _dequeue of Node for every class: only an empty cache refuses
NotEnoughDataNode(node) == node.cache = None

\* Aggregator._dequeue refuses until _finalized; Node._dequeue refuses an
\* empty cache
NotEnoughData(node) ==
    \/ node.cls \in Aggregators /\ ~_finalized(node)
    \/ node.cache = None

\* Node.process(data, pusher, queue) of a subscriber, run to its end
process(S, n, data, pusher) ==
    LET S1 == IF data # None
              THEN [S EXCEPT !.g[n].enqueued_dependencies = @ \cup {pusher},
                             !.g[n].cache = data]
              ELSE S
    IN  IF NotEnoughData(S1.g[n]) THEN ProcessTail(S1, n)
        ELSE LET inp == S1.g[n].cache
                 S2 == _first_chunk([S1 EXCEPT !.g[n].cache = None], n, inp)
                 S3 == _process(S2, n, inp)
             IN  IF S3.exc # NoExc THEN S3 ELSE ProcessTail(S3, n)

----------------------------------------------------------------------------
(* feature.py: Feature.  A declaration is a record                         *)
(*   [extractor, needs, store, persistence, data_writer, version]          *)
(* persistence is the database the Feature's own settings name, "" for None*)

EmptyGraph == [nodes |-> <<>>, keys |-> {}]

\* Feature.database(persistence): (self.persistence or persistence).database
FeatureDatabase(feat, persistence) ==
    IF feat.persistence # "" THEN feat.persistence ELSE persistence

\* a key that leaves the version out
FeatureKeyUnversioned(_id, key, ver) == build(<<Str(_id), Str(key)>>)

\* keybuilder(persistence).build(_id, key, version)
FeatureKey(_id, key, ver) == build(<<Str(_id), Str(key), ver>>)

\* Feature._stored
_stored(db, feat, f, _id, persistence) ==
    Contains(db[FeatureDatabase(feat, persistence)],
             FeatureKey(_id, f, feat.version))

RECURSIVE add_listener(_, _, _)
\* Node.__init__: for n in self._needs: n.add_listener(self)
add_listener(nodes, needs, k) ==
    IF needs = <<>> THEN nodes
    ELSE add_listener(
             [nodes EXCEPT ![Head(needs)].listeners = Append(@, k)],
             Tail(needs), k)

\* graph[key] = node, the node having registered with its needs
AddNode(G, k, node) ==
    [nodes |-> add_listener(G.nodes @@ (k :> node), node.needs, k),
     keys |-> G.keys \cup {k}]

RECURSIVE _build_extractor(_, _, _, _, _)
RECURSIVE _depends_on(_, _, _, _, _)
\* Feature._depends_on: compile the needs that are not in the graph yet
_depends_on(G, FT, needs, _id, persistence) ==
    IF needs = <<>> THEN G
    ELSE _depends_on(
             IF <<Head(needs), "x">> \in G.keys THEN G
             ELSE _build_extractor(G, FT, Head(needs), _id, persistence),
             FT, Tail(needs), _id, persistence)

\* the return of an unstored feature left out: every feature gets a writer
BuildsWriterAlways(feat) == TRUE

\* the `if not self.store: return e` of Feature._build_extractor
BuildsWriter(feat) == feat.store

\* a lookup that never finds the feature: it is compiled again
CompiledNever(G, f) == FALSE

\* the try of Feature._build_extractor: graph[self.key] does not raise KeyError
Compiled(G, f) == <<f, "x">> \in G.keys

\* Feature._build_extractor(_id, graph, persistence)
_build_extractor(G, FT, f, _id, persistence) ==
    IF Compiled(G, f) THEN G
    ELSE
      LET feat == FT[f]
          G1 == _depends_on(G, FT, feat.needs, _id, persistence)
          e == NewNode(feat.extractor,
                       [i \in 1..Len(feat.needs) |-> <<feat.needs[i], "x">>])
          G2 == AddNode(G1, <<f, "x">>, e)
          encoder == NewNode("Encoder", <<<<f, "x">>>>)
          G3 == AddNode(G2, <<f, "encoder">>, encoder)
          dw == [NewNode(feat.data_writer, <<<<f, "encoder">>>>) EXCEPT
                   !.db = FeatureDatabase(feat, persistence),
                   !.key = FeatureKey(_id, f, feat.version)]
      IN  IF ~BuildsWriter(feat) THEN G2
          ELSE AddNode(G3, <<f, "writer">>, dw)

RECURSIVE BuildAll(_, _, _, _, _)
\* BaseModel._build_extractor: every feature of the class into one Graph
BuildAll(G, FT, fs, _id, persistence) ==
    IF fs = <<>> THEN G
    ELSE BuildAll(_build_extractor(G, FT, Head(fs), _id, persistence),
                  FT, Tail(fs), _id, persistence)

----------------------------------------------------------------------------
(* extractor.py: Graph *)

RECURSIVE Count(_, _)
Count(s, x) ==
    IF s = <<>> THEN 0
    ELSE (IF Head(s) = x THEN 1 ELSE 0) + Count(Tail(s), x)

RECURSIVE InOrder(_, _)
\* the members of set K, in the order the Graph is walked
InOrder(K, i) ==
    IF i > Len(NodeOrder) THEN <<>>
    ELSE (IF NodeOrder[i] \in K THEN <<NodeOrder[i]>> ELSE <<>>)
             \o InOrder(K, i + 1)

\* Graph.roots, Graph.leaves
roots(G) == {k \in G.keys : is_root(G.nodes[k])}
leaves(G) == {k \in G.keys : is_leaf(G.nodes[k])}

RECURSIVE SubscribersFrom(_, _, _)
SubscribersFrom(G, P, i) ==
    IF i > Len(NodeOrder) THEN <<>>
    ELSE LET k == NodeOrder[i]
         IN  (IF k \in G.keys
              THEN [j \in 1..Count(G.nodes[k].needs, P) |-> k]
              ELSE <<>>) \o SubscribersFrom(G, P, i + 1)

\* Graph.subscriptions()[id(P)]: one entry for every need of a node of the
\* graph that is P
subscriptions(G, P) == SubscribersFrom(G, P, 1)

\* a disconnect that leaves the node among the listeners of its needs
disconnect_none(nodes, needs, k) == [nodes |-> nodes, exc |-> NoExc]

RECURSIVE disconnect(_, _, _)
\* Node.disconnect: for e in self.needs: e._listeners.remove(self); exc is
\* the ValueError of a remove that does not find self
disconnect(nodes, needs, k) ==
    IF needs = <<>> THEN [nodes |-> nodes, exc |-> NoExc]
    ELSE IF k \notin SeqToSet(nodes[Head(needs)].listeners)
         THEN [nodes |-> nodes, exc |-> "ValueError"]
         ELSE disconnect(
                  [nodes EXCEPT ![Head(needs)].listeners = RemoveFirst(@, k)],
                  Tail(needs), k)

\* a test that finds no node dead: nothing is removed
IsDeadNever(node, feat) == FALSE

\* the test of remove_dead_nodes: extractor.is_leaf and not feature.store
IsDead(node, feat) == is_leaf(node) /\ ~feat.store

\* a loop that never looks at the needs of the node it has popped
extendleft_none(nodes, needs) == nodes

\* nodes.extendleft(extractor.needs): each need is put at the left end in turn
extendleft(nodes, needs) == Reverse(needs) \o nodes

RECURSIVE RemoveLoop(_, _, _)
\* the while loop of Graph.remove_dead_nodes on the deque nodes (left end
\* first); a node that is not the extractor of a feature is skipped
RemoveLoop(G, FT, nodes) ==
    IF nodes = <<>> THEN [G |-> G, exc |-> NoExc]
    ELSE
      LET extractor == nodes[Len(nodes)]
          node == G.nodes[extractor]
          \* nodes.extendleft(extractor.needs)
          nodes1 == extendleft(SubSeq(nodes, 1, Len(nodes) - 1), node.needs)
          d == disconnect(G.nodes, node.needs, extractor)
      IN  IF extractor[2] # "x" THEN RemoveLoop(G, FT, nodes1)
          ELSE IF ~IsDead(node, FT[extractor[1]])
          THEN RemoveLoop(G, FT, nodes1)
          ELSE IF d.exc # NoExc THEN [G |-> G, exc |-> d.exc]
          ELSE IF extractor \notin G.keys THEN [G |-> G, exc |-> "KeyError"]
          ELSE RemoveLoop([nodes |-> d.nodes, keys |-> G.keys \ {extractor}],
                          FT, nodes1)

\* Graph.remove_dead_nodes(features), the leaves taken in the given order
remove_dead_nodes(G, FT, order) == RemoveLoop(G, FT, order)

\* the orders in which a set of keys can come out of a dict
Orders(K) ==
    {s \in [1..Cardinality(K) -> K] : \A k \in K : \E i \in DOMAIN s : s[i] = k}

----------------------------------------------------------------------------
(* extractor.py: Graph.process, one root step or one envelope at a time *)

\* `except TypeError: continue` around the call of a subscriber
Swallowed(exc) == exc = "TypeError"

RECURSIVE Deliver(_, _, _)
\* for subscriber in subscriptions[key]: [_ for _ in func(**kwargs)]
Deliver(S, subs, env) ==
    IF subs = <<>> THEN S
    ELSE
      LET S0 == Log(S, Event("deliver", env.key, env.fname, env.data,
                             Head(subs)))
          S1 == IF env.fname = "process"
                THEN process(S0, Head(subs), env.data, env.key)
                ELSE _finish(S0, Head(subs), env.key)
      IN  IF S1.exc = NoExc THEN Deliver(S1, Tail(subs), env)
          ELSE IF Swallowed(S1.exc)
          THEN Deliver([S1 EXCEPT !.exc = NoExc], Tail(subs), env)
          ELSE S1

\* a test that lets every kwargs through
MissingRootsNever(G, K) == FALSE

\* len(intersection) < len(roots), K being kwargs.keys()
MissingRoots(G, K) ==
    Cardinality(K \cap roots(G)) < Cardinality(roots(G))

\* the keyword argument that carries the id for UserSpecifiedIdProvider: no
\* node of the graph has that key
ExtraKey == <<"_id", "x">>

\* the root keys a caller may pass for graph G: every root, or every root
\* but one
RootKeySets(G) == {roots(G)} \cup {roots(G) \ {r} : r \in roots(G)}

\* the same, with and without a key that is no root
KwargsKeys(G) == RootKeySets(G) \cup {R \cup {ExtraKey} : R \in RootKeySets(G)}

\* roots[k].process(v, queue=queue): a generator not yet started.  chunks is
\* what the source will yield for the input v
NewGenerator(k, chunks) ==
    [key |-> k, chunks |-> chunks, started |-> FALSE, pos |-> 0,
     tailed |-> FALSE, done |-> FALSE]

\* a generator that never ends: it yields None for ever after its tail
StopIterationNever(gen) == gen

\* the generator function returns: next() raises StopIteration
StopIteration(gen) == [gen EXCEPT !.done = TRUE]

\* what a root's _process raises when it is entered
RootRaises(node) ==
    CASE node.cls = "Broken" -> "Exception"
      [] node.cls = "BrokenTypeError" -> "TypeError"
      [] OTHER -> NoExc

\* next() on the generator of a root: Node.process up to its next yield
GenNext(S, gen) ==
    LET n == gen.key
        S0 == IF gen.started THEN S
              ELSE _first_chunk(
                       [S EXCEPT
                           !.g[n].enqueued_dependencies = @ \cup {NoPusher},
                           !.invoked = @ \cup {n}],
                       n, Len(gen.chunks))
        exc0 == IF gen.started THEN NoExc ELSE RootRaises(S.g[n])
        gen0 == [gen EXCEPT !.started = TRUE]
    IN  IF exc0 # NoExc THEN [S |-> Raise(S0, n, exc0), gen |-> gen0]
        ELSE IF gen.pos < Len(gen.chunks)
        THEN [S |-> _push(S0, n, gen.chunks[gen.pos + 1]),
              gen |-> [gen0 EXCEPT !.pos = @ + 1]]
        ELSE IF ~gen.tailed
        THEN [S |-> ProcessTail(S0, n), gen |-> [gen0 EXCEPT !.tailed = TRUE]]
        ELSE [S |-> S0, gen |-> StopIteration(gen0)]

\* the next generator after index i that is not exhausted, 0 when none
NextLive(gens, i) ==
    IF \E j \in (i + 1)..Len(gens) : ~gens[j].done
    THEN CHOOSE j \in (i + 1)..Len(gens) :
             /\ ~gens[j].done
             /\ \A k \in (i + 1)..(j - 1) : gens[k].done
    ELSE 0

\* with contextlib.nested(*self.values()): scope[n] counts the calls of
\* n.__enter__ and of n.__exit__ the run has made; none before the with
NoScope(G) == [n \in G.keys |-> [enters |-> 0, exits |-> 0]]

\* the with block is entered: __enter__ of every node of the graph
EnterAll(scope) ==
    [n \in DOMAIN scope |->
        [enters |-> scope[n].enters + 1, exits |-> scope[n].exits]]

\* __exit__ of every node that was entered
Exited(scope) ==
    [n \in DOMAIN scope |->
        [enters |-> scope[n].enters,
         exits |-> IF scope[n].enters > scope[n].exits
                   THEN scope[n].exits + 1 ELSE scope[n].exits]]

\* a run without the with block: the nodes are exited only when the loop
\* ends, not when an exception leaves it
ExitUnlessRaised(S) ==
    IF S.exc # NoExc THEN S ELSE [S EXCEPT !.scope = Exited(@)]

\* the with block is left, by the end of the loop or by an exception
ExitAll(S) == [S EXCEPT !.scope = Exited(@)]

\* the scope when Graph.process has got to its loop (refused: it raised
\* before the with; norun: there is no generator, the with is left at once)
StartScope(G, refused, norun) ==
    IF refused THEN NoScope(G)
    ELSE IF norun
    THEN ExitAll([scope |-> EnterAll(NoScope(G)), exc |-> NoExc]).scope
    ELSE EnterAll(NoScope(G))

RunState ==
    [g |-> graph.nodes, q |-> queue, db |-> database,
     invoked |-> hist.invoked, thrown |-> hist.thrown, exc |-> NoExc,
     log |-> hist.log, trace |-> hist.trace, scope |-> hist.scope]

\* the variables a step of the run sets from the state S it computed
SetRun(S) ==
    /\ graph' = [graph EXCEPT !.nodes = S.g]
    /\ queue' = S.q
    /\ database' = S.db
    /\ hist' = [hist EXCEPT !.invoked = S.invoked, !.thrown = S.thrown,
                             !.log = S.log, !.scope = S.scope]

\* izip_longest(*generators): one generator is advanced
RootStep ==
    /\ pc = "roots"
    /\ \E r \in {GenNext(RunState, generators[op.gi])} :
       LET gens == [generators EXCEPT ![op.gi] = r.gen]
           j == NextLive(gens, op.gi)
           ends == j = 0 /\ \A i \in DOMAIN gens : gens[i].done
       IN  /\ SetRun(IF r.S.exc # NoExc \/ ends THEN ExitAll(r.S) ELSE r.S)
           /\ generators' = gens
           /\ IF r.S.exc # NoExc
              THEN pc' = "raise" /\ op' = [op EXCEPT !.exc = r.S.exc]
              ELSE IF j # 0
              THEN pc' = "roots" /\ op' = [op EXCEPT !.gi = j]
              ELSE IF ends
              THEN pc' = "exit" /\ op' = op
              ELSE /\ pc' = IF r.S.q = <<>> THEN "roots" ELSE "drain"
                   /\ op' = [op EXCEPT !.gi = NextLive(gens, 0)]
    /\ UNCHANGED <<features, id_provider, result>>

\* an `if queue:` in the place of the while: one envelope for each round
QueueDrainedAfterOne(q) == TRUE

\* the test of `while queue:` after an envelope was handled
QueueDrained(q) == q = <<>>

\* queue.popleft(): the envelope put on the queue last
popleft(q) == [item |-> q[1], rest |-> Tail(q)]

\* queue.pop(): the right end, where the oldest envelope is
pop(q) == [item |-> q[Len(q)], rest |-> SubSeq(q, 1, Len(q) - 1)]

\* while queue: key, fname, kwargs = queue.pop(), then every subscriber
DrainStep ==
    /\ pc = "drain"
    /\ queue # <<>>
    /\ LET env == pop(queue).item
           S0 == [RunState EXCEPT !.q = pop(queue).rest]
       IN  \E S1 \in {Deliver(S0, subscriptions(graph, env.key), env)} :
           /\ SetRun(IF S1.exc # NoExc THEN ExitAll(S1) ELSE S1)
           /\ IF S1.exc # NoExc
              THEN pc' = "raise" /\ op' = [op EXCEPT !.exc = S1.exc]
              ELSE /\ pc' = IF QueueDrained(S1.q) THEN "roots" ELSE "drain"
                   /\ op' = op
    /\ UNCHANGED <<features, id_provider, generators, result>>

----------------------------------------------------------------------------
(* model.py: BaseModel *)

\* str() of the integers IntegerIdProvider hands out
IntStr == <<"1", "2", "3", "4">>

\* IdProvider.new_id(**kwargs): the ids a call may return.  IntegerIdProvider
\* returns its counter; UserSpecifiedIdProvider returns kwargs[key], which is
\* an id used before or a new one (the new ones are named in order, idp._id
\* being the next)
new_id(idp) ==
    IF idp.cls = "IntegerIdProvider" THEN {IntStr[idp._id]}
    ELSE {IntStr[i] : i \in 1..idp._id}

\* the name under which a class keeps what it derives from
Bases == "__bases__"

\* a model class: its features and whether PersistenceSettings is among its
\* bases
ClassOf(ft, settings) ==
    [k \in FeatureSet \cup {Bases} |->
        IF k = Bases THEN [settings |-> settings] ELSE ft[k]]

\* a class whose bases are never looked at
SettingsNotChecked == TRUE

\* _ensure_persistence_settings(cls) does not raise:
\* issubclass(cls, PersistenceSettings)
HasPersistenceSettings == features[Bases].settings

\* the features of the class as Feature objects: DataWriter is the default
\* data_writer, version the extractor's
ModelFT ==
    [f \in FeatureSet |->
        [extractor |-> features[f].extractor, needs |-> features[f].needs,
         store |-> features[f].store, persistence |-> features[f].persistence,
         data_writer |-> "DataWriter",
         version |-> version(features[f].extractor)]]

\* the database BaseModel._rollback deletes from
RollbackDatabase(feat) == ModelDb

\* a del outside any try: the KeyError ends the loop
DeleteFailedRaises(R, f) ==
    [R EXCEPT !.failed = @ \cup {f}, !.exc = "KeyError"]

\* try: del cls.database[key] / except: pass, when the del raised
DeleteFailed(R, f) == [R EXCEPT !.failed = @ \cup {f}]

RECURSIVE RollbackLoop(_, _, _)
\* the loop of _rollback over cls.features.itervalues(): R.db are the
\* databases, R.deleted the features whose key was deleted, R.failed those
\* whose del raised (InMemoryDatabase.__delitem__ raises KeyError for a key
\* it does not hold), R.exc the exception that left the loop
RollbackLoop(R, fs, _id) ==
    IF fs = <<>> \/ R.exc # NoExc THEN R
    ELSE LET feat == ModelFT[Head(fs)]
             key == FeatureKey(_id, Head(fs), feat.version)
             d == RollbackDatabase(feat)
         IN  RollbackLoop(
                 IF ~feat.store THEN R
                 ELSE IF Contains(R.db[d], key)
                 THEN [R EXCEPT !.db[d] = delitem(@, key),
                                !.deleted = @ \cup {Head(fs)}]
                 ELSE DeleteFailed(R, Head(fs)),
                 Tail(fs), _id)

\* what a call of _rollback has done: nothing, when none was made
NoRollback == [ran |-> FALSE, failed |-> {}, deleted |-> {}, exc |-> NoExc]

\* a rollback whose keys leave the id out: it deletes the entries of the
\* stored features for every document
_rollback_any_id(db, fs, _id) ==
    LET stored == {f \in SeqToSet(fs) : ModelFT[f].store}
        named(k) == \E f \in stored : decompose(k)[2] = Str(f)
    IN  [db |-> [db EXCEPT ![ModelDb] =
                    Restrict(@, {k \in DOMAIN @ : ~named(k)})],
         failed |-> {}, deleted |-> stored, exc |-> NoExc]

\* BaseModel._rollback(_id)
_rollback(db, fs, _id) ==
    RollbackLoop([db |-> db, failed |-> {}, deleted |-> {}, exc |-> NoExc],
                 fs, _id)

NoOp ==
    [type |-> "none", _id |-> "", feature |-> "", gi |-> 0, exc |-> NoExc,
     sink |-> FALSE]
NoResult ==
    [type |-> "none", status |-> "none", exc |-> NoExc, _id |-> "",
     feature |-> "", value |-> <<>>, cached |-> FALSE, rb |-> NoRollback]

\* BaseModel.process(**kwargs) up to the first step of graph.process: the id,
\* the graph, remove_dead_nodes and the root generators.  kwargs[k] is the
\* number of chunks the source k finds in its input
StartProcess ==
    /\ pc = "idle"
    /\ hist.nops < MaxOps
    /\ IF ~HasPersistenceSettings
       THEN /\ result' = [NoResult EXCEPT
                             !.type = "process", !.status = "raised",
                             !.exc = "NoPersistenceSettingsError"]
            /\ hist' = [hist EXCEPT !.nops = @ + 1, !.invoked = {},
                                    !.thrown = {}, !.pre = database,
                                    !.log = <<>>, !.keys = {},
                                    !.scope = <<>>]
            /\ UNCHANGED <<id_provider, graph, queue, generators, pc, op>>
       ELSE
       \E _id \in new_id(id_provider) :
         \E G \in {BuildAll(EmptyGraph, ModelFT, FeatureKeys, _id, ModelDb)} :
             \E rd \in {remove_dead_nodes(G, ModelFT, order) :
                           order \in Orders(leaves(G))} :
               \E R \in RootKeySets(rd.G) :
                 \E kwargs \in [R -> 0..MaxChunks] :
                   LET K == R \cup {ExtraKey}
                       rs == InOrder(K \cap roots(rd.G), 1)
                       missing == rd.exc = NoExc /\ MissingRoots(rd.G, K)
                   IN
                     /\ id_provider' =
                            IF _id = IntStr[id_provider._id]
                            THEN [id_provider EXCEPT !._id = @ + 1]
                            ELSE id_provider
                     /\ hist' = [hist EXCEPT !.nops = @ + 1, !.invoked = {},
                                              !.thrown = {}, !.pre = database,
                                              !.log = <<>>, !.keys = K,
                                              !.scope = StartScope(rd.G,
                                                  rd.exc # NoExc \/ missing,
                                                  rs = <<>>)]
                     /\ graph' = rd.G
                     /\ queue' = <<>>
                     /\ IF rd.exc # NoExc
                        THEN /\ pc' = "idle"
                             /\ op' = NoOp
                             /\ generators' = <<>>
                             /\ result' = [NoResult EXCEPT
                                    !.type = "process", !.status = "raised",
                                    !.exc = rd.exc, !._id = _id]
                        ELSE /\ pc' = IF missing THEN "raise"
                                      ELSE IF rs = <<>> THEN "exit"
                                      ELSE "roots"
                             /\ op' = [NoOp EXCEPT
                                    !.type = "process", !._id = _id, !.gi = 1,
                                    !.exc = IF missing THEN "KeyError"
                                            ELSE NoExc]
                             /\ generators' =
                                  IF missing THEN <<>> ELSE
                                    [i \in 1..Len(rs) |->
                                        NewGenerator(rs[i],
                                            [j \in 1..kwargs[rs[i]] |-> j])]
                             /\ result' = NoResult
    /\ UNCHANGED <<features, database>>

\* graph.process returned: process returns _id
ProcessReturn ==
    /\ pc = "exit"
    /\ op.type = "process"
    /\ pc' = "idle"
    /\ op' = NoOp
    /\ result' = [NoResult EXCEPT !.type = "process", !.status = "returned",
                                  !._id = op._id]
    /\ UNCHANGED <<features, id_provider, database, graph, queue, generators,
                   hist>>

\* except Exception: cls._rollback(_id); raise
ProcessRollback ==
    /\ pc = "raise"
    /\ op.type = "process"
    /\ pc' = "idle"
    /\ op' = NoOp
    /\ LET r == _rollback(database, FeatureKeys, op._id)
       IN  /\ database' = r.db
           /\ result' = [NoResult EXCEPT
                  !.type = "process", !.status = "raised", !._id = op._id,
                  !.exc = IF r.exc # NoExc THEN r.exc ELSE op.exc,
                  !.rb = [ran |-> TRUE, failed |-> r.failed,
                          deleted |-> r.deleted, exc |-> r.exc]]
    /\ UNCHANGED <<features, id_provider, graph, queue, generators, hist>>

----------------------------------------------------------------------------
(* feature.py: the fetch, Feature.__call__(_id, persistence=cls), as       *)
(* BaseModel.__getattribute__ calls it                                     *)

RECURSIVE _can_compute_any(_)
\* _can_compute with any() in the place of all()
_can_compute_any(f) ==
    IF ModelFT[f].store THEN TRUE
    ELSE IF ModelFT[f].needs = <<>> THEN FALSE
    ELSE \E i \in 1..Len(ModelFT[f].needs) :
             _can_compute_any(ModelFT[f].needs[i])

RECURSIVE _can_compute(_)
\* Feature._can_compute
_can_compute(f) ==
    IF ModelFT[f].store THEN TRUE
    ELSE IF ModelFT[f].needs = <<>> THEN FALSE
    ELSE \A i \in 1..Len(ModelFT[f].needs) : _can_compute(ModelFT[f].needs[i])

\* is_cached that forgets the stored entry: every feature is recomputed
IsCachedNever(feat, stored) == FALSE

\* is_cached of Feature._partial
IsCached(feat, stored) == feat.store /\ stored

\* a _partial that never asks for the StringIODataWriter
PartialDataWriterDefault(feat, stored, root) == "DataWriter"

\* the data_writer _partial gives the copy (None is the default, DataWriter)
PartialDataWriter(feat, stored, root) ==
    IF feat.store /\ ~stored THEN "DataWriter"
    ELSE IF root THEN "StringIODataWriter"
    ELSE "DataWriter"

\* a partial graph that stores nothing but the fetched feature
should_store_never(feat, stored) == FALSE

\* should_store of Feature._partial: a store=True feature whose key is missing
\* is stored by the graph that computes it
should_store(feat, stored) == feat.store /\ ~stored

RECURSIVE _partial(_, _, _, _, _)
RECURSIVE PartialNeeds(_, _, _, _)
\* the loop of _partial over self.needs
PartialNeeds(db, needs, _id, table) ==
    IF needs = <<>> THEN table
    ELSE PartialNeeds(db, Tail(needs), _id,
                      _partial(db, Head(needs), _id, table, FALSE))

\* Feature._partial(_id, features, persistence): the copies of the features
\* that have to be compiled to compute f; root says features was None
_partial(db, f, _id, table, root) ==
    LET feat == ModelFT[f]
        stored == _stored(db, feat, f, _id, ModelDb)
        is_cached == IsCached(feat, stored)
        nf == [extractor |-> IF is_cached THEN "DecoderNode"
                             ELSE feat.extractor,
               needs |-> IF is_cached THEN <<>> ELSE feat.needs,
               store |-> root \/ should_store(feat, stored),
               persistence |-> feat.persistence,
               data_writer |-> PartialDataWriter(feat, stored, root),
               version |-> feat.version]
        t1 == [k \in DOMAIN table \cup {f} |-> IF k = f THEN nf ELSE table[k]]
    IN  IF is_cached THEN t1 ELSE PartialNeeds(db, feat.needs, _id, t1)

RECURSIVE KeysInOrder(_, _)
\* the feature keys of set K in declaration order
KeysInOrder(K, i) ==
    IF i > Len(FeatureKeys) THEN <<>>
    ELSE (IF FeatureKeys[i] \in K THEN <<FeatureKeys[i]>> ELSE <<>>)
             \o KeysInOrder(K, i + 1)

RECURSIVE find_listener(_, _)
\* Node.find_listener(isinstance StringIODataWriter): the first listener, or
\* what the first listener finds
find_listener(nodes, k) ==
    IF nodes[k].listeners = <<>> THEN NoPusher
    ELSE LET l == nodes[k].listeners[1]
         IN  IF nodes[l].cls = "StringIODataWriter" THEN l
             ELSE find_listener(nodes, l)

\* the kwargs of the fetch for root k of the partial graph: the _reader of a
\* DecoderNode, else self.reader(_id, k, persistence), the entry named k with
\* the fetched feature's version in the fetched feature's database; chunks
\* is what the root yields from it
RootReader(db, G, k, f, _id) ==
    LET d == IF G.nodes[k].cls = "DecoderNode"
             THEN FeatureDatabase(ModelFT[k[1]], ModelDb)
             ELSE FeatureDatabase(ModelFT[f], ModelDb)
        key == IF G.nodes[k].cls = "DecoderNode"
               THEN FeatureKey(_id, k[1], ModelFT[k[1]].version)
               ELSE FeatureKey(_id, k[1], ModelFT[f].version)
    IN  [found |-> Contains(db[d], key),
         raises |-> Contains(db[d], key) /\ ReadRaises(db[d], key),
         chunks |-> IF Contains(db[d], key) THEN read_stream(db[d], key)
                    ELSE <<>>]

\* the try of Feature.__call__: self.reader(_id, self.key, persistence) does
\* not raise KeyError
CacheHit(db, f, _id) ==
    Contains(db[FeatureDatabase(ModelFT[f], ModelDb)],
             FeatureKey(_id, f, ModelFT[f].version))

\* BaseModel.__getattribute__ of a feature of cls(_id), and Feature.__call__
\* up to the first step of graph.process
StartFetch ==
    /\ pc = "idle"
    /\ hist.nops < MaxOps
    /\ \E f \in FeatureSet, _id \in {IntStr[i] : i \in 1..id_provider._id} :
         IF ~HasPersistenceSettings
         THEN /\ result' = [NoResult EXCEPT
                               !.type = "fetch", !.status = "raised",
                               !.exc = "NoPersistenceSettingsError",
                               !._id = _id, !.feature = f]
              /\ hist' = [hist EXCEPT !.nops = @ + 1, !.invoked = {},
                                      !.thrown = {}, !.pre = database,
                                      !.log = <<>>, !.keys = {},
                                      !.scope = <<>>]
              /\ UNCHANGED <<graph, queue, generators, pc, op>>
         ELSE
         \E table \in {_partial(database, f, _id, <<>>, TRUE)} :
         \E G \in {BuildAll(EmptyGraph, table,
                            KeysInOrder(DOMAIN table, 1), _id, ModelDb)} :
         LET feat == ModelFT[f]
             d == FeatureDatabase(feat, ModelDb)
             key == FeatureKey(_id, f, feat.version)
             rs == InOrder(roots(G), 1)
             ended == [NoResult EXCEPT !.type = "fetch", !._id = _id,
                                       !.feature = f]
             readers == [i \in 1..Len(rs) |->
                            RootReader(database, G, rs[i], f, _id)]
             \* the readers that fail: KeyError for an entry that is not
             \* there, NoLenError for one still being written.  The
             \* reader of a DecoderNode is made by _build_extractor, before
             \* the others, which are made root after root in the order of
             \* a dict: the first one that fails ends the fetch
             decoders == {i \in 1..Len(rs) :
                             /\ G.nodes[rs[i]].cls = "DecoderNode"
                             /\ readers[i].raises}
             excs == IF decoders # {} THEN {NoLenError}
                     ELSE {IF readers[i].raises THEN NoLenError
                           ELSE "KeyError" :
                               i \in {j \in 1..Len(rs) :
                                          \/ ~readers[j].found
                                          \/ readers[j].raises}}
             runs == /\ ~CacheHit(database, f, _id)
                     /\ _can_compute(f)
                     /\ excs = {}
         IN  /\ hist' = [hist EXCEPT !.nops = @ + 1, !.invoked = {},
                                      !.thrown = {}, !.pre = database,
                                      !.log = <<>>, !.keys = {},
                                      !.scope = IF runs
                                                THEN StartScope(G, FALSE, FALSE)
                                                ELSE <<>>]
             /\ queue' = <<>>
             /\ IF CacheHit(database, f, _id)
                THEN /\ result' =
                            IF ReadRaises(database[d], key)
                            THEN [ended EXCEPT !.status = "raised",
                                               !.exc = NoLenError]
                            ELSE [ended EXCEPT
                                    !.status = "returned", !.cached = TRUE,
                                    !.value = read_stream(database[d], key)]
                     /\ UNCHANGED <<graph, generators, pc, op>>
                ELSE IF ~_can_compute(f)
                THEN /\ result' = [ended EXCEPT !.status = "raised",
                                                !.exc = "AttributeError"]
                     /\ UNCHANGED <<graph, generators, pc, op>>
                ELSE IF excs # {}
                THEN /\ \E e \in excs :
                            result' = [ended EXCEPT !.status = "raised",
                                                    !.exc = e]
                     /\ graph' = G
                     /\ UNCHANGED <<generators, pc, op>>
                ELSE /\ result' = NoResult
                     /\ graph' = G
                     /\ generators' =
                            [i \in 1..Len(rs) |->
                                NewGenerator(rs[i], readers[i].chunks)]
                     /\ pc' = "roots"
                     /\ op' = [NoOp EXCEPT
                            !.type = "fetch", !._id = _id, !.feature = f,
                            !.gi = 1,
                            !.sink = find_listener(G.nodes, <<f, "x">>)
                                         # NoPusher]
    /\ UNCHANGED <<features, id_provider, database>>

\* graph.process returned: the fetch decodes the StringIODataWriter's stream
\* or, without one, reads the entry the run wrote
FetchReturn ==
    /\ pc = "exit"
    /\ op.type = "fetch"
    /\ LET feat == ModelFT[op.feature]
           d == FeatureDatabase(feat, ModelDb)
           key == FeatureKey(op._id, op.feature, feat.version)
           ended == [NoResult EXCEPT !.type = "fetch", !._id = op._id,
                                     !.feature = op.feature]
       IN  result' =
               IF op.sink
               THEN [ended EXCEPT !.status = "returned",
                        !.value = graph.nodes[<<op.feature, "writer">>].written]
               ELSE IF ~Contains(database[d], key)
               THEN [ended EXCEPT !.status = "raised", !.exc = "KeyError"]
               ELSE IF ReadRaises(database[d], key)
               THEN [ended EXCEPT !.status = "raised", !.exc = NoLenError]
               ELSE [ended EXCEPT !.status = "returned",
                                  !.value = read_stream(database[d], key)]
    /\ pc' = "idle"
    /\ op' = NoOp
    /\ UNCHANGED <<features, id_provider, database, graph, queue, generators,
                   hist>>

\* graph.process raised: nothing catches it in Feature.__call__
FetchRaise ==
    /\ pc = "raise"
    /\ op.type = "fetch"
    /\ result' = [NoResult EXCEPT !.type = "fetch", !.status = "raised",
                      !.exc = op.exc, !._id = op._id, !.feature = op.feature]
    /\ pc' = "idle"
    /\ op' = NoOp
    /\ UNCHANGED <<features, id_provider, database, graph, queue, generators,
                   hist>>

\* del database[key], by the caller, between two operations
Delete ==
    /\ pc = "idle"
    /\ hist.deletes < MaxDeletes
    /\ \E d \in DBs :
         \E key \in DOMAIN database[d] :
             database' = [database EXCEPT ![d] = delitem(@, key)]
    /\ hist' = [hist EXCEPT !.deletes = @ + 1]
    /\ result' = NoResult
    /\ UNCHANGED <<features, id_provider, graph, queue, generators, pc, op>>

----------------------------------------------------------------------------
(* The model classes: every way to declare the features a, b, c with a need *)
(* only on a feature declared before, at most one extractor that is not a  *)
(* plain Node and at most one feature with settings of its own.            *)

NeedsOf ==
    [f \in FeatureSet |->
        CASE f = "a" -> {<<>>}
          [] f = "b" -> {<<>>, <<"a">>}
          [] OTHER -> {<<>>, <<"a">>, <<"b">>, <<"a", "b">>}]

Declarations ==
    {ft \in [FeatureSet ->
                [extractor : Extractors, store : BOOLEAN,
                 persistence : {"", "db2"},
                 needs : {<<>>, <<"a">>, <<"b">>, <<"a", "b">>}]] :
        /\ \A f \in FeatureSet : ft[f].needs \in NeedsOf[f]
        /\ \A f \in FeatureSet : ft[f].persistence # "" => ft[f].store
        /\ Cardinality({f \in FeatureSet : ft[f].persistence # ""}) <= 1
        /\ Cardinality({f \in FeatureSet : ft[f].extractor # "Node"}) <= 1}

Init ==
    /\ features \in {ClassOf(ft, TRUE) : ft \in Declarations}
    /\ id_provider \in
           [cls : {"UserSpecifiedIdProvider"}, _id : {1}]
    /\ database = [d \in DBs |-> EmptyDb]
    /\ graph = EmptyGraph
    /\ queue = <<>>
    /\ generators = <<>>
    /\ pc = "idle"
    /\ op = NoOp
    /\ result = NoResult
    /\ hist = [nops |-> 0, deletes |-> 0, invoked |-> {}, thrown |-> {},
               pre |-> database, log |-> <<>>, trace |-> FALSE, keys |-> {},
               scope |-> <<>>]

Next ==
    \/ StartProcess
    \/ RootStep
    \/ DrainStep
    \/ ProcessReturn
    \/ ProcessRollback
    \/ StartFetch
    \/ FetchReturn
    \/ FetchRaise
    \/ Delete

Spec == Init /\ [][Next]_vars

----------------------------------------------------------------------------
(* extractor.py: one call of Graph.process on the graph the model class    *)
(* compiles, the run being recorded in hist.log                            *)

\* the extractor classes of the recorded runs
RunExtractors == Extractors \cup {"TheLastWord"}

\* the model classes of the recorded runs: as Declarations, with one more
\* extractor class and no feature with settings of its own
RunDeclarations ==
    {ft \in [FeatureSet ->
                [extractor : RunExtractors, store : BOOLEAN,
                 persistence : {""},
                 needs : {<<>>, <<"a">>, <<"b">>, <<"a", "b">>}]] :
        /\ \A f \in FeatureSet : ft[f].needs \in NeedsOf[f]
        /\ Cardinality({f \in FeatureSet : ft[f].extractor # "Node"}) <= 1}

\* the graphs BaseModel.process hands to Graph.process for document "1"
CompiledGraphs ==
    LET G == BuildAll(EmptyGraph, ModelFT, FeatureKeys, IntStr[1], ModelDb)
        rds == {remove_dead_nodes(G, ModelFT, order) :
                   order \in Orders(leaves(G))}
    IN  {rd.G : rd \in {r \in rds : r.exc = NoExc}}

InitRun ==
    /\ features \in {ClassOf(ft, TRUE) : ft \in RunDeclarations}
    /\ id_provider = [cls |-> "UserSpecifiedIdProvider", _id |-> 2]
    /\ database = [d \in DBs |-> EmptyDb]
    /\ graph \in CompiledGraphs
    /\ queue = <<>>
    /\ generators = <<>>
    /\ pc = "idle"
    /\ op = NoOp
    /\ result = NoResult
    /\ hist = [nops |-> 0, deletes |-> 0, invoked |-> {}, thrown |-> {},
               pre |-> database, log |-> <<>>, trace |-> TRUE, keys |-> {},
               scope |-> <<>>]

\* Graph.process(**kwargs) up to the first step of a generator: the check of
\* the kwargs against the roots and the root generators
StartRun ==
    /\ pc = "idle"
    /\ hist.nops = 0
    /\ \E K \in KwargsKeys(graph) :
         \E kwargs \in [K \cap roots(graph) -> 0..MaxRunChunks] :
           LET rs == InOrder(K \cap roots(graph), 1)
               missing == MissingRoots(graph, K)
           IN  /\ hist' = [hist EXCEPT !.nops = 1, !.pre = database,
                                        !.keys = K,
                                        !.scope = StartScope(graph, missing,
                                                             rs = <<>>)]
               /\ pc' = IF missing THEN "raise"
                        ELSE IF rs = <<>> THEN "exit"
                        ELSE "roots"
               /\ op' = [NoOp EXCEPT
                      !.type = "run", !._id = IntStr[1], !.gi = 1,
                      !.exc = IF missing THEN "KeyError" ELSE NoExc]
               /\ generators' =
                      IF missing THEN <<>>
                      ELSE [i \in 1..Len(rs) |->
                               NewGenerator(rs[i],
                                            [j \in 1..kwargs[rs[i]] |-> j])]
    /\ queue' = <<>>
    /\ result' = NoResult
    /\ UNCHANGED <<features, id_provider, database, graph>>

\* Graph.process returns
RunReturn ==
    /\ pc = "exit"
    /\ op.type = "run"
    /\ pc' = "idle"
    /\ op' = NoOp
    /\ result' = [NoResult EXCEPT !.type = "run", !.status = "returned",
                                  !._id = op._id]
    /\ UNCHANGED <<features, id_provider, database, graph, queue, generators,
                   hist>>

\* Graph.process raises: the KeyError of the kwargs check, or what a node
\* raised
RunRaise ==
    /\ pc = "raise"
    /\ op.type = "run"
    /\ pc' = "idle"
    /\ op' = NoOp
    /\ result' = [NoResult EXCEPT !.type = "run", !.status = "raised",
                                  !.exc = op.exc, !._id = op._id]
    /\ UNCHANGED <<features, id_provider, database, graph, queue, generators,
                   hist>>

NextRun ==
    \/ StartRun
    \/ RootStep
    \/ DrainStep
    \/ RunReturn
    \/ RunRaise

SpecRun == InitRun /\ [][NextRun]_vars

\* the model classes of the runs followed to their end: every feature stored,
\* one extractor class for the three
FairDeclarations ==
    {ft \in RunDeclarations :
        /\ \A f \in FeatureSet : ft[f].store
        /\ \A f \in FeatureSet : ft[f].extractor = "Node"}

InitFair ==
    /\ features \in {ClassOf(ft, TRUE) : ft \in FairDeclarations}
    /\ id_provider = [cls |-> "UserSpecifiedIdProvider", _id |-> 2]
    /\ database = [d \in DBs |-> EmptyDb]
    /\ graph \in CompiledGraphs
    /\ queue = <<>>
    /\ generators = <<>>
    /\ pc = "idle"
    /\ op = NoOp
    /\ result = NoResult
    /\ hist = [nops |-> 0, deletes |-> 0, invoked |-> {}, thrown |-> {},
               pre |-> database, log |-> <<>>, trace |-> FALSE, keys |-> {},
               scope |-> <<>>]

\* ENABLED <<DrainStep>>_vars written out: a drain step takes the oldest
\* envelope and what it puts on the queue comes from another node, so it
\* always changes the queue
DrainEnabled == pc = "drain" /\ queue # <<>>

\* weak fairness of the drain step, WF_vars(DrainStep), with DrainEnabled in
\* the place of ENABLED <<DrainStep>>_vars
FairDrain == []<>(~DrainEnabled) \/ []<><<DrainStep>>_vars

\* Graph.process is one thread of control: once called it goes on, step after
\* step, until it returns or raises
FairRun ==
    /\ WF_vars(StartRun)
    /\ WF_vars(RootStep)
    /\ FairDrain
    /\ WF_vars(RunReturn)
    /\ WF_vars(RunRaise)

SpecRunFair == InitFair /\ [][NextRun]_vars /\ FairRun

----------------------------------------------------------------------------
(* extractor.py: recorded runs of graphs in which a feature may name the   *)
(* same feature twice in its needs: Node.__init__ then registers the node  *)
(* twice with that need, and Graph.subscriptions lists it twice            *)

DupNeedsOf ==
    [f \in FeatureSet |->
        CASE f = "a" -> {<<>>}
          [] f = "b" -> {<<"a">>, <<"a", "a">>}
          [] OTHER -> {<<"a">>, <<"b">>, <<"a", "b">>, <<"b", "b">>}]

DupDeclarations ==
    {ft \in [FeatureSet ->
                [extractor : {"Node", "Aggregator", "Broken"},
                 store : BOOLEAN, persistence : {""},
                 needs : UNION {DupNeedsOf[f] : f \in FeatureSet}]] :
        /\ \A f \in FeatureSet : ft[f].needs \in DupNeedsOf[f]
        /\ Cardinality({f \in FeatureSet : ft[f].extractor # "Node"}) <= 1}

InitDup ==
    /\ features \in {ClassOf(ft, TRUE) : ft \in DupDeclarations}
    /\ id_provider = [cls |-> "UserSpecifiedIdProvider", _id |-> 2]
    /\ database = [d \in DBs |-> EmptyDb]
    /\ graph \in CompiledGraphs
    /\ queue = <<>>
    /\ generators = <<>>
    /\ pc = "idle"
    /\ op = NoOp
    /\ result = NoResult
    /\ hist = [nops |-> 0, deletes |-> 0, invoked |-> {}, thrown |-> {},
               pre |-> database, log |-> <<>>, trace |-> TRUE, keys |-> {},
               scope |-> <<>>]

SpecDup == InitDup /\ [][NextRun]_vars

----------------------------------------------------------------------------
(* model.py, extractor.py: a class of four features is compiled into one   *)
(* Graph, feature after feature in the order its dict gives them, and      *)
(* remove_dead_nodes is called on the result, as BaseModel.process does.   *)
(* hist.keys holds the features the loop has not come to yet.              *)

GraphFeatures == {"a", "b", "c", "d"}

\* the needs a feature may name: features declared before it, so that a need
\* can be shared (c on a and b, b on a) and d can close a diamond
GraphNeedsOf ==
    [f \in GraphFeatures |->
        CASE f = "a" -> {<<>>}
          [] f = "b" -> {<<>>, <<"a">>}
          [] f = "c" -> {<<>>, <<"a">>, <<"b">>, <<"a", "b">>}
          [] OTHER -> {<<"a">>, <<"b">>, <<"c">>, <<"a", "b">>, <<"a", "c">>,
                       <<"b", "c">>, <<"a", "b", "c">>}]

GraphDeclarations ==
    {ft \in [GraphFeatures ->
                [extractor : {"Node"}, store : BOOLEAN, persistence : {""},
                 needs : UNION {GraphNeedsOf[f] : f \in GraphFeatures}]] :
        \A f \in GraphFeatures : ft[f].needs \in GraphNeedsOf[f]}

\* the features of the class as Feature objects
GraphFT ==
    [f \in GraphFeatures |->
        [extractor |-> features[f].extractor, needs |-> features[f].needs,
         store |-> features[f].store, persistence |-> features[f].persistence,
         data_writer |-> "DataWriter",
         version |-> version(features[f].extractor)]]

InitGraph ==
    /\ features \in
           {[k \in GraphFeatures \cup {Bases} |->
                IF k = Bases THEN [settings |-> TRUE] ELSE ft[k]] :
                    ft \in GraphDeclarations}
    /\ id_provider = [cls |-> "UserSpecifiedIdProvider", _id |-> 2]
    /\ database = [d \in DBs |-> EmptyDb]
    /\ graph = EmptyGraph
    /\ queue = <<>>
    /\ generators = <<>>
    /\ pc = "compile"
    /\ op = NoOp
    /\ result = NoResult
    /\ hist = [nops |-> 0, deletes |-> 0, invoked |-> {}, thrown |-> {},
               pre |-> database, log |-> <<>>, trace |-> FALSE,
               keys |-> GraphFeatures, scope |-> <<>>]

\* one turn of the loop of BaseModel._build_extractor:
\* feature._build_extractor(_id, g, cls) for the next feature of the dict
CompileNext ==
    /\ pc = "compile"
    /\ \E f \in hist.keys :
         /\ graph' = _build_extractor(graph, GraphFT, f, IntStr[1], ModelDb)
         /\ op' = [NoOp EXCEPT !.type = "compile", !.feature = f]
         /\ hist' = [hist EXCEPT !.keys = @ \ {f}]
    /\ UNCHANGED <<features, id_provider, database, queue, generators, pc,
                   result>>

\* graph.remove_dead_nodes(cls.features.itervalues()), the leaves coming out
\* of the dict in any order; what it raises leaves BaseModel.process
RemoveDead ==
    /\ pc = "compile"
    /\ hist.keys = {}
    /\ \E order \in Orders(leaves(graph)) :
         LET rd == remove_dead_nodes(graph, GraphFT, order)
         IN  /\ graph' = rd.G
             /\ result' = [NoResult EXCEPT
                    !.type = "remove",
                    !.status = IF rd.exc = NoExc THEN "returned" ELSE "raised",
                    !.exc = rd.exc]
    /\ pc' = "idle"
    /\ op' = NoOp
    /\ UNCHANGED <<features, id_provider, database, queue, generators, hist>>

NextGraph ==
    \/ CompileNext
    \/ RemoveDead

SpecGraph == InitGraph /\ [][NextGraph]_vars

----------------------------------------------------------------------------
(* model.py: several model classes on the Settings of one test case.  The  *)
(* classes declare a as a stream, b as a TimestampEmitter over a and c as  *)
(* a plain Node or one that raises; they differ in the version b is        *)
(* declared with and in having PersistenceSettings among their bases.      *)
(* features is the class the caller addresses; id_provider and database    *)
(* are those of Settings.                                                  *)

RECURSIVE IdsInOrder(_, _)
\* the loop of iter_ids over the keys in the order the store gives them: the
\* first part of each key, skipping the ids in seen
IdsInOrder(keys, seen) ==
    IF keys = <<>> THEN <<>>
    ELSE LET _id == decompose(Head(keys))[1]
         IN  IF _id \in seen THEN IdsInOrder(Tail(keys), seen)
             ELSE <<_id>> \o IdsInOrder(Tail(keys), seen \cup {_id})

ClassDeclarations ==
    {ft \in [FeatureSet ->
                [extractor : {"Node", "Broken", "TimestampEmitter1"},
                 store : BOOLEAN,
                 persistence : {"", "db2"}, needs : {<<>>, <<"a">>, <<"b">>}]] :
        /\ ft["a"].extractor = "Node" /\ ft["a"].needs = <<>>
        /\ ft["a"].persistence = ""
        /\ ft["b"].extractor = "TimestampEmitter1" /\ ft["b"].needs = <<"a">>
        /\ ft["b"].store
        /\ ft["c"].extractor # "TimestampEmitter1" /\ ft["c"].needs # <<>>
        /\ ft["c"].persistence = ""}

\* the classes with the features of cls: either version of b, with and
\* without PersistenceSettings
Siblings(cls) ==
    {[cls EXCEPT !["b"].extractor = e, ![Bases].settings = s] :
        e \in DOMAIN Emitted, s \in BOOLEAN}

InitClasses ==
    /\ features \in {ClassOf(ft, TRUE) : ft \in ClassDeclarations}
    /\ id_provider \in
           [cls : {"UserSpecifiedIdProvider"}, _id : {1}]
    /\ database = [d \in DBs |-> EmptyDb]
    /\ graph = EmptyGraph
    /\ queue = <<>>
    /\ generators = <<>>
    /\ pc = "idle"
    /\ op = NoOp
    /\ result = NoResult
    /\ hist = [nops |-> 0, deletes |-> 0, invoked |-> {}, thrown |-> {},
               pre |-> database, log |-> <<>>, trace |-> FALSE, keys |-> {},
               scope |-> <<>>]

\* the caller turns to another class of the test case
UseClass ==
    /\ pc = "idle"
    /\ features' \in Siblings(features) \ {features}
    /\ result' = NoResult
    /\ UNCHANGED <<id_provider, database, graph, queue, generators, pc, op,
                   hist>>

\* list(cls): MetaModel.__iter__, one instance per id of cls.database
Iterate ==
    /\ pc = "idle"
    /\ hist.nops < MaxOps
    /\ IF ~HasPersistenceSettings
       THEN result' = [NoResult EXCEPT
                          !.type = "iter", !.status = "raised",
                          !.exc = "NoPersistenceSettingsError"]
       ELSE \E order \in Orders(DOMAIN database[ModelDb]) :
                result' = [NoResult EXCEPT
                              !.type = "iter", !.status = "returned",
                              !.value = IdsInOrder(order, {})]
    /\ hist' = [hist EXCEPT !.nops = @ + 1, !.invoked = {}, !.thrown = {},
                            !.pre = database, !.log = <<>>, !.keys = {},
                            !.scope = <<>>]
    /\ UNCHANGED <<features, id_provider, database, graph, queue, generators,
                   pc, op>>

NextClasses ==
    \/ UseClass
    \/ Iterate
    \/ StartProcess
    \/ RootStep
    \/ DrainStep
    \/ ProcessReturn
    \/ ProcessRollback
    \/ StartFetch
    \/ FetchReturn
    \/ FetchRaise
    \/ Delete

SpecClasses == InitClasses /\ [][NextClasses]_vars

----------------------------------------------------------------------------
(* data.py: StringDelimitedKeyBuilder on its own.  A part is what a caller *)
(* hands to build: a str, or an int such as the ids IntegerIdProvider      *)
(* mints; text is what str() gives for it.  hist.built keeps the keys built *)
(* so far with the parts they were built from.                             *)

MaxPartLen == 1
MaxBuilt == 2

KeyChars == {"a", seperator}

Texts == UNION {[1..n -> KeyChars] : n \in 0..MaxPartLen}

KeyParts ==
    {[int |-> FALSE, text |-> t] : t \in Texts}
        \cup {[int |-> TRUE, text |-> <<"1">>]}

\* str(x): a str is its own text, an int gives its decimal digits
StrOf(x) == x.text

\* the str objects split() returns
StrParts(texts) == [i \in DOMAIN texts |-> [int |-> FALSE, text |-> texts[i]]]

InitKey ==
    /\ features = <<>>
    /\ id_provider = [cls |-> "none"]
    /\ database = EmptyDb
    /\ graph = EmptyGraph
    /\ queue = <<>>
    /\ generators = <<>>
    /\ pc = "idle"
    /\ op = [type |-> "none", parts |-> <<>>]
    /\ result = [type |-> "none", key |-> <<>>, parts |-> <<>>]
    /\ hist = [built |-> {}]

\* key = key_builder.build(a, b, c): no part is refused, whatever it holds
BuildKey ==
    \E a \in KeyParts, b \in KeyParts, c \in KeyParts :
        LET key == build(<<StrOf(a), StrOf(b), StrOf(c)>>)
            made == [parts |-> <<a, b, c>>, key |-> key]
        IN  /\ made \in hist.built \/ Cardinality(hist.built) < MaxBuilt
            /\ op' = [type |-> "build", parts |-> <<a, b, c>>]
            /\ result' = [type |-> "build", key |-> key, parts |-> <<>>]
            /\ hist' = [built |-> hist.built \cup {made}]
            /\ UNCHANGED <<features, id_provider, database, graph, queue,
                           generators, pc>>

\* key_builder.decompose(key) of the key just built
DecomposeKey ==
    /\ result.type = "build"
    /\ result' = [type |-> "decompose", key |-> result.key,
                  parts |-> StrParts(decompose(result.key))]
    /\ UNCHANGED <<features, id_provider, database, graph, queue, generators,
                   pc, op, hist>>

NextKey ==
    \/ BuildKey
    \/ DecomposeKey

SpecKey == InitKey /\ [][NextKey]_vars

----------------------------------------------------------------------------
(* data.py, lmdbstore.py: the Database classes on their own, called as    *)
(* DataWriter, Feature and BaseModel call them.  database.store is _dict   *)
(* of InMemoryDatabase, the directory of FileSystemDatabase (a file being  *)
(* written is an entry with closed = FALSE) or dbs of LmdbDatabase with    *)
(* what each sub-database holds; database.streams are the write streams    *)
(* handed out and not closed yet, with the bytes written to them.          *)

Backends == {"InMemoryDatabase", "FileSystemDatabase", "LmdbDatabase"}

MaxDbOps == 4
MaxBytes == 1

\* the keys the callers use: two documents, two features
DbKeys ==
    {FeatureKey("1", "a", version("Node")),
     FeatureKey("1", "b", version("Node")),
     FeatureKey("2", "b", version("Node"))}

\* _id, feature, version = self.key_builder.decompose(key);
\* versioned_key = self.key_builder.build(_id, version)
versioned_key(key) == build(<<decompose(key)[1], decompose(key)[3]>>)

\* LmdbDatabase._get_db: the sub-database of the key's feature, opened when
\* the environment has none of that name
_get_db(dbs, key) ==
    LET feature == decompose(key)[2]
    IN  [f \in DOMAIN dbs \cup {feature} |->
            IF f \in DOMAIN dbs THEN dbs[f] ELSE <<>>]

\* LmdbDatabase._get_read_db does not raise KeyError
_get_read_db(dbs, key) == decompose(key)[2] \in DOMAIN dbs

\* lmdbstore.WriteStream.close: txn.put(_id, self.buf.read(), db=db)
LmdbClose(dbs, key, buf) ==
    LET d1 == _get_db(dbs, key)
        feature == decompose(key)[2]
        vk == versioned_key(key)
    IN  [d1 EXCEPT ![feature] =
            [k \in DOMAIN d1[feature] \cup {vk} |->
                IF k = vk THEN buf ELSE d1[feature][k]]]

\* LmdbDatabase.__contains__
LmdbContains(dbs, key) ==
    /\ _get_read_db(dbs, key)
    /\ versioned_key(key) \in DOMAIN dbs[decompose(key)[2]]

\* LmdbDatabase.__delitem__: nothing happens without the sub-database, and
\* txn.delete of a key that is not there deletes nothing
LmdbDelete(dbs, key) ==
    IF ~_get_read_db(dbs, key) THEN dbs
    ELSE [dbs EXCEPT ![decompose(key)[2]] =
            Restrict(@, DOMAIN @ \ {versioned_key(key)})]

\* file.close() of FileSystemDatabase: the bytes reach the file, unless the
\* file was removed while it was open
FsClose(files, key, buf) ==
    IF key \in DOMAIN files THEN stream_close(files, key, buf) ELSE files

\* key in database
DbContains(D, key) ==
    IF D.backend = "LmdbDatabase" THEN LmdbContains(D.store, key)
    ELSE Contains(D.store, key)

NoDbResult ==
    [type |-> "none", key |-> <<>>, exc |-> NoExc, found |-> FALSE,
     bytes |-> <<>>, ids |-> <<>>]

InitDb ==
    /\ features = <<>>
    /\ id_provider = [cls |-> "none"]
    /\ database \in [backend : Backends, store : {<<>>}, streams : {<<>>}]
    /\ graph = EmptyGraph
    /\ queue = <<>>
    /\ generators = <<>>
    /\ pc = "idle"
    /\ op = [type |-> "none"]
    /\ result = NoDbResult
    /\ hist = [nops |-> 0]

\* database.write_stream(key, content_type)
DbWriteStream ==
    \E key \in DbKeys \ DOMAIN database.streams :
        /\ hist.nops < MaxDbOps
        /\ database' =
               [database EXCEPT
                   !.store = IF database.backend = "LmdbDatabase" THEN @
                             ELSE write_stream(@, key),
                   !.streams = [k \in DOMAIN @ \cup {key} |->
                       IF k = key
                       THEN [buf |-> <<>>,
                             fresh |-> ~DbContains(database, key)]
                       ELSE @[k]]]
        /\ hist' = [nops |-> hist.nops + 1]
        /\ result' = NoDbResult
        /\ UNCHANGED <<features, id_provider, graph, queue, generators, pc,
                       op>>

\* stream.write(data)
DbWrite ==
    \E key \in DOMAIN database.streams :
        /\ Len(database.streams[key].buf) < MaxBytes
        /\ database' = [database EXCEPT !.streams[key].buf = Append(@, 1)]
        /\ result' = NoDbResult
        /\ UNCHANGED <<features, id_provider, graph, queue, generators, pc,
                       op, hist>>

\* stream.close()
DbClose ==
    \E key \in DOMAIN database.streams :
        LET buf == database.streams[key].buf
        IN  /\ database' =
                   [database EXCEPT
                       !.store =
                           CASE database.backend = "LmdbDatabase" ->
                                    LmdbClose(@, key, buf)
                             [] database.backend = "FileSystemDatabase" ->
                                    FsClose(@, key, buf)
                             [] OTHER -> stream_close(@, key, buf),
                       !.streams = Restrict(@, DOMAIN @ \ {key})]
            /\ result' = NoDbResult
            /\ UNCHANGED <<features, id_provider, graph, queue, generators,
                           pc, op, hist>>

\* del database[key]: KeyError of the dict and OSError of os.remove when the
\* key is not there
DbDelete ==
    \E key \in DbKeys :
        LET missing == ~DbContains(database, key)
            exc == CASE database.backend = "LmdbDatabase" -> NoExc
                     [] database.backend = "FileSystemDatabase" ->
                            IF missing THEN "OSError" ELSE NoExc
                     [] OTHER -> IF missing THEN "KeyError" ELSE NoExc
        IN  /\ hist.nops < MaxDbOps
            /\ database' =
                   [database EXCEPT
                       !.store = IF database.backend = "LmdbDatabase"
                                 THEN LmdbDelete(@, key)
                                 ELSE IF missing THEN @ ELSE delitem(@, key)]
            /\ hist' = [nops |-> hist.nops + 1]
            /\ result' = [NoDbResult EXCEPT !.type = "delete", !.key = key,
                                            !.exc = exc]
            /\ UNCHANGED <<features, id_provider, graph, queue, generators,
                           pc, op>>

\* key in database
DbContainsKey ==
    \E key \in DbKeys :
        /\ result' = [NoDbResult EXCEPT !.type = "contains", !.key = key,
                          !.found = DbContains(database, key)]
        /\ UNCHANGED <<features, id_provider, database, graph, queue,
                       generators, pc, op, hist>>

\* database.read_stream(key).read().  A file that is still open for writing
\* shows the bytes flushed so far, some prefix of what was written
DbReadStream ==
    \E key \in DbKeys :
        LET D == database
            read == [NoDbResult EXCEPT !.type = "read_stream", !.key = key]
        IN  /\ IF ~DbContains(D, key)
               THEN result' = [read EXCEPT !.exc = "KeyError"]
               ELSE IF D.backend = "LmdbDatabase"
               THEN result' = [read EXCEPT !.bytes =
                       D.store[decompose(key)[2]][versioned_key(key)]]
               ELSE IF D.store[key].closed
               THEN result' = [read EXCEPT
                                  !.bytes = read_stream(D.store, key)]
               ELSE IF D.backend = "InMemoryDatabase"
               THEN result' = [read EXCEPT !.exc = NoLenError]
               ELSE \E n \in 0..(IF key \in DOMAIN D.streams
                                  THEN Len(D.streams[key].buf) ELSE 0) :
                        result' = [read EXCEPT !.bytes =
                            IF n = 0 THEN <<>>
                            ELSE SubSeq(D.streams[key].buf, 1, n)]
            /\ UNCHANGED <<features, id_provider, database, graph, queue,
                           generators, pc, op, hist>>

\* list(database.iter_ids()).  LmdbDatabase walks self.dbs.values()[0], the
\* sub-database the dict happens to give first
DbIterIds ==
    /\ LET D == database
           listed == [NoDbResult EXCEPT !.type = "iter_ids"]
       IN  IF D.backend = "LmdbDatabase"
           THEN IF DOMAIN D.store = {}
                THEN result' = listed
                ELSE \E f \in DOMAIN D.store :
                       \E order \in Orders(DOMAIN D.store[f]) :
                         result' = [listed EXCEPT
                                       !.ids = IdsInOrder(order, {})]
           ELSE \E order \in Orders(DOMAIN D.store) :
                    result' = [listed EXCEPT !.ids = IdsInOrder(order, {})]
    /\ UNCHANGED <<features, id_provider, database, graph, queue, generators,
                   pc, op, hist>>

NextDb ==
    \/ DbWriteStream
    \/ DbWrite
    \/ DbClose
    \/ DbDelete
    \/ DbContainsKey
    \/ DbReadStream
    \/ DbIterIds

SpecDb == InitDb /\ [][NextDb]_vars

----------------------------------------------------------------------------
(* The properties *)

\* the database f is bound to and the key of f for _id
DbOf(f) == FeatureDatabase(ModelFT[f], ModelDb)
KeyOf(f, _id) == FeatureKey(_id, f, ModelFT[f].version)

\* the last operation was a process, or a fetch, and it has ended
ProcessEnded == pc = "idle" /\ result.type = "process"
FetchEnded == pc = "idle" /\ result.type = "fetch"

\* some entry of some database is named f (for document _id, or for any
\* document when _id is "")
KeyBears(db, f, _id) ==
    \E d \in DBs : \E key \in DOMAIN db[d] :
        /\ Len(decompose(key)) >= 2
        /\ decompose(key)[2] = Str(f)
        /\ _id # "" => decompose(key)[1] = Str(_id)

RECURSIVE Dependents(_, _)
\* the features that need a feature of F, directly or through others
Dependents(F, n) ==
    IF n = 0 THEN F
    ELSE Dependents(F \cup {g \in FeatureSet :
                        \E i \in 1..Len(ModelFT[g].needs) :
                            ModelFT[g].needs[i] \in F}, n - 1)

\* f is unstored and no feature that depends on it is stored
DeadFeature(f) ==
    \A g \in Dependents({f}, Len(FeatureKeys)) : ~ModelFT[g].store

RECURSIVE UnstoredUp(_, _)
\* the features a path of needs reaches from F through unstored features only
UnstoredUp(F, n) ==
    IF n = 0 THEN F
    ELSE UnstoredUp(F \cup {g \in FeatureSet :
                        /\ ~ModelFT[g].store
                        /\ \E h \in F : \E i \in 1..Len(ModelFT[h].needs) :
                               ModelFT[h].needs[i] = g}, n - 1)

\* f is unstored and some path from f up to a root feature passes through no
\* stored feature
UnstoredPathToRoot(f) ==
    /\ ~ModelFT[f].store
    /\ \E g \in UnstoredUp({f}, Len(FeatureKeys)) : ModelFT[g].needs = <<>>

\* C1: after process returns a docId, the key of every store=True feature for
\* that docId exists in the database the feature is bound to
C1_StoredKeysExist ==
    (ProcessEnded /\ result.status = "returned") =>
        \A f \in FeatureSet :
            ModelFT[f].store =>
                Contains(database[DbOf(f)], KeyOf(f, result._id))

\* C2: after process raises, the key of every store=True feature for the docId
\* of the failed run is absent from the database the feature is bound to, also
\* when that is not the model's database
C2_RollbackRemovesKeys ==
    (ProcessEnded /\ result.status = "raised") =>
        \A f \in FeatureSet :
            ModelFT[f].store =>
                ~Contains(database[DbOf(f)], KeyOf(f, result._id))

\* C3: an exception raised inside a _process, of a root or of a subscriber, of
\* whatever type, aborts the run: the run is never continued after one, and a
\* process in which one was raised ends raising it
C3_ExceptionsPropagate ==
    /\ pc \in {"roots", "drain", "exit"} => hist.thrown = {}
    /\ (ProcessEnded /\ hist.thrown # {}) =>
           /\ result.status = "raised"
           /\ \E t \in hist.thrown : t[2] = result.exc

\* C4: after process returns a docId, no entry of any database for that docId
\* bears the name of a store=False feature
C4_UnstoredNotWritten ==
    (ProcessEnded /\ result.status = "returned") =>
        \A f \in FeatureSet :
            ~ModelFT[f].store => ~KeyBears(database, f, result._id)

\* C4 witness: a process returned in which an unstored feature was computed
\* and a stored one written
C4_Witness ==
    /\ ProcessEnded /\ result.status = "returned"
    /\ \E f \in FeatureSet :
           ~ModelFT[f].store /\ <<f, "x">> \in hist.invoked
    /\ \E f \in FeatureSet :
           Contains(database[DbOf(f)], KeyOf(f, result._id))

\* C5: a fetch of a feature whose key is in the database returns the stored
\* value, invokes no _process and leaves the database unchanged
C5_HitReadsStore ==
    (FetchEnded /\ Contains(hist.pre[DbOf(result.feature)],
                            KeyOf(result.feature, result._id))) =>
        /\ result.status = "returned"
        /\ result.value = read_stream(hist.pre[DbOf(result.feature)],
                                      KeyOf(result.feature, result._id))
        /\ hist.invoked = {}
        /\ database = hist.pre

\* C6: after a fetch of a store=True feature whose key was missing returns,
\* the key of the fetched feature and the key of every store=True feature the
\* fetch had to compute exist in the database, so that the next fetch is a hit
C6_FetchStores ==
    (/\ FetchEnded /\ result.status = "returned"
     /\ ModelFT[result.feature].store
     /\ ~Contains(hist.pre[DbOf(result.feature)],
                  KeyOf(result.feature, result._id))) =>
        /\ CacheHit(database, result.feature, result._id)
        /\ \A g \in FeatureSet :
               (/\ <<g, "x">> \in graph.keys
                /\ graph.nodes[<<g, "x">>].cls # "DecoderNode"
                /\ ModelFT[g].store) =>
                   Contains(database[DbOf(g)], KeyOf(g, result._id))

\* C6 witness: a fetch returned after computing and storing the fetched
\* feature and another store=True feature whose key was missing as well
C6_Witness ==
    /\ FetchEnded /\ result.status = "returned"
    /\ ModelFT[result.feature].store
    /\ ~Contains(hist.pre[DbOf(result.feature)],
                 KeyOf(result.feature, result._id))
    /\ CacheHit(database, result.feature, result._id)
    /\ \E g \in FeatureSet \ {result.feature} :
           /\ <<g, "x">> \in graph.keys
           /\ graph.nodes[<<g, "x">>].cls # "DecoderNode"
           /\ ModelFT[g].store
           /\ ~Contains(hist.pre[DbOf(g)], KeyOf(g, result._id))
           /\ Contains(database[DbOf(g)], KeyOf(g, result._id))

\* C7: during and after a fetch every entry the database held before the fetch
\* is still there with the same bytes, and the extractor of a feature whose
\* key was present is not run: only a DecoderNode stands in its place
C7_StoredNotRewritten ==
    (op.type = "fetch" \/ FetchEnded) =>
        /\ \A d \in DBs : \A key \in DOMAIN hist.pre[d] :
               /\ key \in DOMAIN database[d]
               /\ database[d][key] = hist.pre[d][key]
        /\ \A f \in FeatureSet :
               (/\ Contains(hist.pre[DbOf(f)],
                            KeyOf(f, IF FetchEnded THEN result._id
                                     ELSE op._id))
                /\ <<f, "x">> \in hist.invoked) =>
                   graph.nodes[<<f, "x">>].cls = "DecoderNode"

\* C7 witness: a fetch computed a missing feature from a dependency whose
\* entry was in the database, read by its DecoderNode
C7_Witness ==
    /\ FetchEnded /\ result.status = "returned" /\ ~result.cached
    /\ \E f \in FeatureSet :
           /\ f # result.feature
           /\ Contains(hist.pre[DbOf(f)], KeyOf(f, result._id))
           /\ <<f, "x">> \in hist.invoked
           /\ <<result.feature, "x">> \in hist.invoked

\* C8: a fetch that misses fails with AttributeError exactly when the feature
\* is unstored and some path from it to a root feature passes through no
\* stored feature, and then no _process was invoked and the database is as
\* before
C8_NotComputable ==
    (FetchEnded /\ ~Contains(hist.pre[DbOf(result.feature)],
                             KeyOf(result.feature, result._id))) =>
        /\ (result.status = "raised" /\ result.exc = "AttributeError")
               <=> UnstoredPathToRoot(result.feature)
        /\ UnstoredPathToRoot(result.feature) =>
               hist.invoked = {} /\ database = hist.pre

\* C8 witness: a fetch of an unstored feature with dependencies failed with
\* AttributeError
C8_Witness ==
    /\ FetchEnded /\ result.exc = "AttributeError"
    /\ ModelFT[result.feature].needs # <<>>

\* C9: a fetch of a store=False feature returns what its StringIODataWriter
\* captured, and after it no entry of any database bears the feature's name
C9_UnstoredFetchNotPersisted ==
    (FetchEnded /\ ~ModelFT[result.feature].store) =>
        /\ ~KeyBears(database, result.feature, "")
        /\ result.status = "returned" =>
               /\ graph.nodes[<<result.feature, "writer">>].cls
                      = "StringIODataWriter"
               /\ result.value
                      = graph.nodes[<<result.feature, "writer">>].written

\* C9 witness: a fetch of an unstored feature returned a computed value
C9_Witness ==
    /\ FetchEnded /\ ~ModelFT[result.feature].store
    /\ result.status = "returned"
    /\ result.value # <<>>
    /\ <<result.feature, "x">> \in hist.invoked

\* C10: during and after a process, the _process of the node of an unstored
\* feature that no stored feature depends on has not been invoked
C10_DeadNotInvoked ==
    (op.type = "process" \/ ProcessEnded) =>
        \A f \in FeatureSet :
            DeadFeature(f) => <<f, "x">> \notin hist.invoked

\* C10 witness: a process returned having computed something, the model having
\* an unstored feature that feeds only another unstored feature
C10_Witness ==
    /\ ProcessEnded /\ result.status = "returned"
    /\ hist.invoked # {}
    /\ \E f, g \in FeatureSet :
           /\ f # g
           /\ DeadFeature(f)
           /\ g \in Dependents({f}, 1)

----------------------------------------------------------------------------
(* The properties of a recorded run *)

\* the entries of the record that match, in order
Delivered(U, D, fname) ==
    SelectSeq(hist.log, LAMBDA e : e.ev = "deliver" /\ e.key = U
                                   /\ e.to = D /\ e.fname = fname)
Pushed(U, fname) ==
    SelectSeq(hist.log, LAMBDA e : e.ev = "push" /\ e.key = U
                                   /\ e.fname = fname)
DataOf(es) == [i \in 1..Len(es) |-> es[i].data]
IsPrefix(s, t) == Len(s) <= Len(t) /\ SubSeq(t, 1, Len(s)) = s

\* how many entries of the first n of the record match
CountLog(n, Test(_)) == Cardinality({i \in 1..n : Test(hist.log[i])})

\* the edges of the graph: U is a need of D
Edges == {<<U, D>> \in graph.keys \X graph.keys :
             U \in SeqToSet(graph.nodes[D].needs)}

\* the last operation was a recorded run, and it has ended
RunEnded == pc = "idle" /\ result.type = "run"

\* C11: for every edge from U to D, the process envelopes of U (its chunks
\* and the closing None) reach D in the order U put them on the queue
C11_ChunkOrder ==
    \A e \in Edges :
        IsPrefix(DataOf(Delivered(e[1], e[2], "process")),
                 DataOf(Pushed(e[1], "process")))

\* C11 witness: a run returned in which a node that is no root handed two
\* different chunks and its closing None to a subscriber
C11_Witness ==
    /\ RunEnded /\ result.status = "returned"
    /\ \E e \in Edges :
           /\ ~is_root(graph.nodes[e[1]])
           /\ Len(Delivered(e[1], e[2], "process")) >= 3
           /\ DataOf(Delivered(e[1], e[2], "process"))[1]
                  # DataOf(Delivered(e[1], e[2], "process"))[2]

\* C12: when the finish envelope of U is delivered to D, every chunk U puts
\* on the queue in the run has already been delivered to D
C12_FinishAfterChunks ==
    \A i \in 1..Len(hist.log) :
        (hist.log[i].ev = "deliver" /\ hist.log[i].fname = "_finish") =>
            CountLog(i, LAMBDA e : /\ e.ev = "deliver" /\ e.fname = "process"
                                   /\ e.key = hist.log[i].key
                                   /\ e.to = hist.log[i].to
                                   /\ e.data # None)
            = CountLog(Len(hist.log),
                       LAMBDA e : /\ e.ev = "push" /\ e.fname = "process"
                                  /\ e.key = hist.log[i].key
                                  /\ e.data # None)

\* C12 witness: a finish envelope was delivered after two chunks, the second
\* put on the queue in the call that put the finish envelope there
C12_Witness ==
    /\ RunEnded /\ result.status = "returned"
    /\ \E i \in 2..Len(hist.log) :
           /\ hist.log[i].ev = "push" /\ hist.log[i].fname = "_finish"
           /\ hist.log[i - 1].ev = "push"
           /\ hist.log[i - 1].data = FinalChunk
           /\ \E D \in graph.keys :
                  Len(Delivered(hist.log[i].key, D, "_finish")) = 1

\* C13: in a run that returned, every node was delivered exactly one finish
\* envelope from each of its needs, and no other
C13_FinalizeCount ==
    (RunEnded /\ result.status = "returned") =>
        \A D \in graph.keys :
            /\ \A U \in SeqToSet(graph.nodes[D].needs) :
                   Len(Delivered(U, D, "_finish")) = 1
            /\ CountLog(Len(hist.log),
                        LAMBDA e : /\ e.ev = "deliver" /\ e.fname = "_finish"
                                   /\ e.to = D)
               = Len(graph.nodes[D].needs)

\* C14: after a node has put its own finish envelope on the queue, no process
\* envelope is delivered to it
C14_NoProcessAfterFinish ==
    \A i, j \in 1..Len(hist.log) :
        (/\ i < j
         /\ hist.log[i].ev = "push" /\ hist.log[i].fname = "_finish") =>
            ~(/\ hist.log[j].ev = "deliver"
              /\ hist.log[j].fname = "process"
              /\ hist.log[j].to = hist.log[i].key)

\* C14 witness: a node with two needs that became final one after the other
\* finished, in a run that returned
C14_Witness ==
    /\ RunEnded /\ result.status = "returned"
    /\ \E D \in graph.keys :
           /\ Len(graph.nodes[D].needs) = 2
           /\ Len(Pushed(D, "_finish")) = 1
           /\ \E i, j, k \in 1..Len(hist.log) :
                  /\ i < j /\ j < k
                  /\ hist.log[i].ev = "deliver" /\ hist.log[i].to = D
                  /\ hist.log[i].fname = "_finish"
                  /\ hist.log[j].ev = "deliver" /\ hist.log[j].to = D
                  /\ hist.log[j].fname = "process"
                  /\ hist.log[j].data # None
                  /\ hist.log[k].ev = "deliver" /\ hist.log[k].to = D
                  /\ hist.log[k].fname = "_finish"

\* C15: an Aggregator calls no hook and puts nothing on the queue before the
\* finish envelope of every one of its needs has been delivered to it
C15_AggregatorWaits ==
    \A i \in 1..Len(hist.log) :
        (/\ hist.log[i].ev \in {"push", "first_chunk", "last_chunk"}
         /\ graph.nodes[hist.log[i].key].cls = "Aggregator") =>
            \A U \in SeqToSet(graph.nodes[hist.log[i].key].needs) :
                CountLog(i, LAMBDA e : /\ e.ev = "deliver"
                                       /\ e.fname = "_finish"
                                       /\ e.key = U
                                       /\ e.to = hist.log[i].key) >= 1

\* C15 witness: an Aggregator was handed two chunks and then put one on the
\* queue
C15_Witness ==
    /\ RunEnded /\ result.status = "returned"
    /\ \E e \in Edges :
           /\ graph.nodes[e[2]].cls = "Aggregator"
           /\ Len(SelectSeq(Delivered(e[1], e[2], "process"),
                            LAMBDA x : x.data # None)) >= 2
           /\ \E i \in 1..Len(Pushed(e[2], "process")) :
                  Pushed(e[2], "process")[i].data # None

\* C16: in a run that returned, every node called _last_chunk exactly once,
\* after every chunk it made of its input and before its finish envelope
C16_LastChunkOnce ==
    (RunEnded /\ result.status = "returned") =>
        \A n \in graph.keys :
            /\ CountLog(Len(hist.log),
                        LAMBDA e : e.ev = "last_chunk" /\ e.key = n) = 1
            /\ \A i, j \in 1..Len(hist.log) :
                   (/\ hist.log[i].ev = "last_chunk" /\ hist.log[i].key = n
                    /\ hist.log[j].ev = "push" /\ hist.log[j].key = n) =>
                       IF hist.log[j].fname = "_finish" THEN i < j
                       ELSE IF j < i THEN hist.log[j].data # None
                       ELSE \/ hist.log[j].data = None
                            \/ /\ hist.log[j].data = FinalChunk
                               /\ \E k \in (j + 1)..Len(hist.log) :
                                      /\ hist.log[k].ev = "push"
                                      /\ hist.log[k].key = n
                                      /\ hist.log[k].fname = "_finish"

\* C17: a node's _first_chunk hook is called at most once in a run, exactly
\* once when the node has dequeued a datum, and then before the node puts
\* anything on the queue
C17_FirstChunkOnce ==
    hist.trace =>
        /\ \A n \in graph.keys :
               CountLog(Len(hist.log),
                        LAMBDA e : e.ev = "first_chunk" /\ e.key = n)
               = (IF n \in hist.invoked THEN 1 ELSE 0)
        /\ \A i \in 1..Len(hist.log) :
               hist.log[i].ev = "first_chunk" =>
                   CountLog(i, LAMBDA e : /\ e.ev = "push"
                                          /\ e.key = hist.log[i].key) = 0

\* C17 witness: a node that is no root was handed two chunks and passed
\* both on
C17_Witness ==
    /\ RunEnded /\ result.status = "returned"
    /\ \E n \in graph.keys :
           /\ ~is_root(graph.nodes[n])
           /\ Len(SelectSeq(Pushed(n, "process"),
                            LAMBDA x : x.data # None)) >= 2

\* C18: Graph.process raises KeyError when the kwargs lack the key of a root,
\* and then no node was stepped and no entry written; when they name every
\* root, a key that is no root changes nothing: no KeyError is raised
C18_MissingRoots ==
    RunEnded =>
        IF roots(graph) \subseteq hist.keys
        THEN result.exc # "KeyError"
        ELSE /\ result.status = "raised" /\ result.exc = "KeyError"
             /\ hist.invoked = {} /\ hist.log = <<>>
             /\ database = hist.pre

\* C18 witness: a run was refused whose kwargs named a root and a key that is
\* no root, but not every root
C18_Witness ==
    /\ RunEnded /\ result.exc = "KeyError"
    /\ ExtraKey \in hist.keys
    /\ hist.keys \cap roots(graph) # {}

----------------------------------------------------------------------------
(* The properties of the rollback *)

\* C19: after a process raised, every entry the databases held before it for
\* another docId is as it was, and every other docId that iter_ids listed is
\* still listed
C19_OtherDocsKept ==
    (ProcessEnded /\ result.status = "raised") =>
        \A d \in DBs :
            /\ \A key \in DOMAIN hist.pre[d] :
                   decompose(key)[1] # Str(result._id) =>
                       /\ key \in DOMAIN database[d]
                       /\ database[d][key] = hist.pre[d][key]
            /\ \A i \in iter_ids(hist.pre[d]) :
                   i # Str(result._id) => i \in iter_ids(database[d])

\* C19 witness: a process raised and its rollback tried the keys of the
\* stored features while the database held a document stored by an earlier
\* process.  (With three features a run that raises does so before any of
\* its writers is reached whenever an earlier run of the same class could
\* return, so the keys the rollback tried were absent.)
C19_Witness ==
    /\ ProcessEnded /\ result.status = "raised"
    /\ result.rb.ran /\ result.rb.failed # {}
    /\ \E i \in iter_ids(hist.pre[ModelDb]) : i # Str(result._id)

\* C20: a rollback raises nothing and tries the key of every stored feature,
\* whichever delete failed, so that none of those keys is left in the model's
\* database; a second rollback for the same docId changes nothing
C20_RollbackBestEffort ==
    (ProcessEnded /\ result.rb.ran) =>
        /\ result.rb.exc = NoExc
        /\ \A f \in FeatureSet :
               ModelFT[f].store =>
                   /\ f \in result.rb.failed \cup result.rb.deleted
                   /\ ~Contains(database[ModelDb], KeyOf(f, result._id))
        /\ _rollback(database, FeatureKeys, result._id).db = database

\* C20 witness: a rollback in which the delete of one feature's key failed
\* and the key of a feature that comes later was deleted
C20_Witness ==
    /\ ProcessEnded /\ result.rb.ran
    /\ \E i, j \in 1..Len(FeatureKeys) :
           /\ i < j
           /\ FeatureKeys[i] \in result.rb.failed
           /\ FeatureKeys[j] \in result.rb.deleted

----------------------------------------------------------------------------
(* The properties of the scheduler *)

IsSuffix(s, t) ==
    Len(s) <= Len(t) /\ SubSeq(t, Len(t) - Len(s) + 1, Len(t)) = s

\* the call was refused before the with block: a key of a root was missing
Refused == op.type \in {"process", "run"} /\ MissingRoots(graph, hist.keys)

\* C26: a run that has started gets to its end, and when Graph.process is
\* about to return or has returned every root generator is exhausted and the
\* queue is empty
C26_Terminates ==
    /\ []((pc = "exit" \/ (RunEnded /\ result.status = "returned")) =>
              (/\ queue = <<>>
               /\ \A i \in DOMAIN generators : generators[i].done))
    /\ (pc \in {"roots", "drain"}) ~> (pc \in {"exit", "raise"})

\* C26 witness: a run returned in which a root yielded all the chunks the
\* bound allows, in a graph of three nodes or more whose nodes were called
C26_Witness ==
    /\ RunEnded /\ result.status = "returned"
    /\ Cardinality(graph.keys) >= 3
    /\ \E i \in DOMAIN generators :
           generators[i].done /\ Len(generators[i].chunks) = MaxRunChunks
    /\ hist.invoked # {}

\* C27: while Graph.process is in its loop every node of the graph has been
\* entered once and none exited; when the loop was left, by its end or by an
\* exception, every node has been entered once and exited once, so that the
\* rollback of the model finds them exited; a call refused for a missing
\* root enters none
C27_ScopeAroundRun ==
    /\ pc \in {"roots", "drain"} =>
           /\ DOMAIN hist.scope = graph.keys
           /\ \A n \in graph.keys :
                  hist.scope[n] = [enters |-> 1, exits |-> 0]
    /\ pc \in {"exit", "raise"} =>
           /\ DOMAIN hist.scope = graph.keys
           /\ \A n \in graph.keys :
                  hist.scope[n] = IF Refused THEN [enters |-> 0, exits |-> 0]
                                  ELSE [enters |-> 1, exits |-> 1]
    /\ hist.invoked # {} =>
           \A n \in DOMAIN hist.scope : hist.scope[n].enters = 1
    /\ (ProcessEnded /\ result.rb.ran) =>
           \A n \in DOMAIN hist.scope :
               hist.scope[n].exits = hist.scope[n].enters

\* C27 witness: a node raised in a graph whose writer had opened an entry,
\* every node was exited and the rollback deleted the entry
C27_Witness ==
    /\ ProcessEnded /\ result.rb.ran
    /\ hist.thrown # {}
    /\ result.rb.deleted # {}
    /\ graph.keys # {}
    /\ \A n \in graph.keys : hist.scope[n] = [enters |-> 1, exits |-> 1]

\* C29 as the claim has it: a drain step takes the envelope put on the queue
\* last, the others stay pending
C29_PopsNewest ==
    [][pc = "drain" => IsSuffix(Tail(queue), queue')]_vars

\* C29: a drain step takes the envelope that has been on the queue longest;
\* the others stay pending, in their order, behind what the step puts
C29_PopsOldest ==
    [][pc = "drain" =>
          IsSuffix(SubSeq(queue, 1, Len(queue) - 1), queue')]_vars

\* C29 witness: a drain step is due with two different envelopes pending
C29_Witness ==
    /\ pc = "drain"
    /\ Len(queue) >= 2
    /\ queue[1] # queue[Len(queue)]

\* C30 as the claim has it: whenever a root generator is about to be
\* advanced the queue is empty
C30_DrainBetweenSteps == pc = "roots" => queue = <<>>

\* C30: whenever a root generator is about to be advanced, the queue holds
\* only envelopes of the root generators advanced before it in the same
\* round, and none when the round begins
C30_DrainBetweenRounds ==
    pc = "roots" =>
        /\ \A i \in 1..Len(queue) :
               \E j \in 1..(op.gi - 1) : generators[j].key = queue[i].key
        /\ op.gi = NextLive(generators, 0) => queue = <<>>

\* C30 witness: the second root generator is about to be advanced while an
\* envelope of the first is pending
C30_Witness ==
    /\ pc = "roots"
    /\ op.gi > 1
    /\ queue # <<>>

----------------------------------------------------------------------------
(* The properties of the key builder *)

\* a part the key builder is meant for: a str that does not hold the separator
LegalPart(x) == ~x.int /\ \A i \in DOMAIN x.text : x.text[i] # seperator
LegalParts(parts) == \A i \in DOMAIN parts : LegalPart(parts[i])

\* some part is a str that holds the separator
HoldsSeparator(parts) ==
    \E i \in DOMAIN parts :
        \E j \in DOMAIN parts[i].text : parts[i].text[j] = seperator

\* C23: StringDelimitedKeyBuilder is one-to-one on legal parts: decompose of
\* the key built from three legal parts a, b, c returns exactly a, b, c, and
\* two different triples of legal parts never build the same key.
C23_RoundTrip ==
    /\ (result.type = "decompose" /\ LegalParts(op.parts))
            => result.parts = op.parts
    /\ \A x \in hist.built : \A y \in hist.built :
            (LegalParts(x.parts) /\ LegalParts(y.parts) /\ x.parts # y.parts)
                => x.key # y.key

\* two different triples of legal parts were built, one with an empty part,
\* and the key of one of them has been decomposed
C23_Witness ==
    /\ result.type = "decompose"
    /\ LegalParts(op.parts)
    /\ \E i \in DOMAIN op.parts : op.parts[i].text # <<>>
    /\ \E x \in hist.built :
           /\ LegalParts(x.parts)
           /\ x.parts # op.parts
           /\ \E i \in DOMAIN x.parts : x.parts[i].text = <<>>

\* C24: build refuses or escapes a part that holds the separator: whenever
\* build has returned a key for parts one of which holds ':', the key
\* decomposes into those parts and no other triple has built the same key.
C24_SeparatorRefused ==
    /\ (result.type = "decompose" /\ HoldsSeparator(op.parts))
            => result.parts = StrParts([i \in DOMAIN op.parts |->
                                           StrOf(op.parts[i])])
    /\ \A x \in hist.built : \A y \in hist.built :
            (HoldsSeparator(x.parts) /\ x.parts # y.parts) => x.key # y.key

----------------------------------------------------------------------------
(* The properties of the databases *)

\* the ids of the documents with a key in the database
StoredIds(D) == {decompose(k)[1] : k \in {key \in DbKeys : DbContains(D, key)}}

\* C21: in every backend a key is not visible between write_stream and the
\* close of the stream: while the stream of a key that was not in the
\* database is open, key in database is false and read_stream raises
\* KeyError.
C21_HiddenUntilClose ==
    \A key \in DOMAIN database.streams :
        database.streams[key].fresh =>
            /\ ~DbContains(database, key)
            /\ (result.type = "read_stream" /\ result.key = key)
                    => result.exc = "KeyError"

\* C22: in every backend iter_ids yields every document id that has a key in
\* the database, each one once, whichever features are stored for it.
C22_IterIdsComplete ==
    result.type = "iter_ids" =>
        /\ SeqToSet(result.ids) = StoredIds(database)
        /\ Len(result.ids) = Cardinality(SeqToSet(result.ids))

----------------------------------------------------------------------------
(* The properties of the model classes *)

\* C25: stored values are keyed by the version of the feature: a fetch of b
\* under the class that declares it with one version returns what that
\* version computes, never the entry another version wrote; when only the
\* other version's entry is there the fetch is no cache hit, it runs b's
\* extractor, stores the result under its own key and leaves the other entry
\* as it was, and it returns whenever the entry of the stream b needs is
\* there.
C25_VersionedCache ==
    (/\ FetchEnded
     /\ HasPersistenceSettings
     /\ ModelFT[result.feature].extractor \in DOMAIN Emitted) =>
        LET f == result.feature
            feat == ModelFT[f]
            d == DbOf(f)
            own == KeyOf(f, result._id)
            others == {FeatureKey(result._id, f, version(c)) :
                          c \in DOMAIN Emitted \ {feat.extractor}}
            need == KeyOf("a", result._id)
        IN  /\ result.status = "returned" =>
                   result.value = <<Emitted[feat.extractor]>>
            /\ ~Contains(hist.pre[d], own) =>
                   /\ ~result.cached
                   /\ result.status = "returned" =>
                          /\ <<f, "x">> \in hist.invoked
                          /\ Contains(database[d], own)
                          /\ database[d][own] =
                                 [closed |-> TRUE,
                                  buf |-> <<Emitted[feat.extractor]>>]
                   /\ \A k \in others :
                          Contains(hist.pre[d], k) =>
                              /\ Contains(database[d], k)
                              /\ database[d][k] = hist.pre[d][k]
                   /\ Contains(hist.pre[DbOf("a")], need) =>
                          result.status = "returned"

\* C25 witness: b was stored with version '1' and a fetch of b under the
\* class that declares version '2' has returned
C25_Witness ==
    /\ FetchEnded /\ result.status = "returned"
    /\ result.feature = "b"
    /\ ModelFT["b"].extractor = "TimestampEmitter2"
    /\ Contains(hist.pre[DbOf("b")],
                FeatureKey(result._id, "b", version("TimestampEmitter1")))
    /\ ~Contains(hist.pre[DbOf("b")], KeyOf("b", result._id))

\* C28: on a class without PersistenceSettings among its bases process,
\* iteration over the class and the read of a feature of an instance raise
\* NoPersistenceSettingsError, and the id provider, the graph and the
\* databases are as before the call.
C28_NoSettingsNoEffect ==
    [][(~features[Bases].settings /\ hist'.nops = hist.nops + 1) =>
           /\ result'.status = "raised"
           /\ result'.exc = "NoPersistenceSettingsError"
           /\ result'.type \in {"process", "iter", "fetch"}
           /\ pc' = "idle"
           /\ id_provider' = id_provider
           /\ graph' = graph
           /\ database' = database]_vars

\* C28 witness: a document was processed under a class with settings and the
\* read of a feature of it under the class without settings has raised
C28_Witness ==
    /\ ~features[Bases].settings
    /\ result.type = "fetch"
    /\ result.exc = "NoPersistenceSettingsError"
    /\ database[ModelDb] # EmptyDb

----------------------------------------------------------------------------
(* The properties of _finalized *)

\* C31: at every point of a run a node is _finalized exactly when every one of
\* its needs has handed it at least one chunk and has handed it its one finish
\* envelope, also when a feature names the same need twice
C31_FinalizedIff ==
    hist.trace =>
        \A D \in graph.keys :
            _finalized(graph.nodes[D]) <=>
                \A U \in SeqToSet(graph.nodes[D].needs) :
                    /\ \E i \in 1..Len(Delivered(U, D, "process")) :
                           Delivered(U, D, "process")[i].data # None
                    /\ Len(Pushed(U, "_finish")) = 1
                    /\ Len(Delivered(U, D, "_finish")) >= 1

\* C35: in a run that returned, the process envelopes a node put on the queue
\* (its chunks and the closing None) were handed to each node that names it
\* in its needs once each, none left out and none twice, and to no other node
C35_DeliveredOnce ==
    (RunEnded /\ result.status = "returned") =>
        \A U \in graph.keys : \A D \in graph.keys :
            IF U \in SeqToSet(graph.nodes[D].needs)
            THEN DataOf(Delivered(U, D, "process"))
                     = DataOf(Pushed(U, "process"))
            ELSE \A i \in 1..Len(hist.log) :
                     ~(/\ hist.log[i].ev = "deliver"
                       /\ hist.log[i].key = U
                       /\ hist.log[i].to = D)

----------------------------------------------------------------------------
(* The properties of the partial graph of a fetch *)

\* the feature and the document of the fetch that is running or has ended
Fetched == IF op.type = "fetch" THEN op.feature ELSE result.feature
FetchedId == IF op.type = "fetch" THEN op._id ELSE result._id

\* graph is the partial graph of that fetch: it missed the cache and the
\* feature can be computed
PartialBuilt ==
    \/ op.type = "fetch"
    \/ /\ FetchEnded
       /\ features[Bases].settings
       /\ ~CacheHit(hist.pre, result.feature, result._id)
       /\ _can_compute(result.feature)

\* g is a store=True feature whose key was in its database when the fetch
\* began
WasCached(g) ==
    /\ ModelFT[g].store
    /\ Contains(hist.pre[DbOf(g)], KeyOf(g, FetchedId))

RECURSIVE NeededUncached(_, _)
\* the features the fetched one reaches along needs, not going past a
\* feature that was cached
NeededUncached(F, n) ==
    IF n = 0 THEN F
    ELSE NeededUncached(
             F \cup {g \in FeatureSet :
                        \E h \in F : /\ ~WasCached(h)
                                     /\ g \in SeqToSet(ModelFT[h].needs)},
             n - 1)

\* every cached feature of the partial graph is a DecoderNode without needs,
\* fed with the stored entry
CachedAreDecoders ==
    \A g \in FeatureSet :
        (<<g, "x">> \in graph.keys /\ WasCached(g)) =>
            /\ graph.nodes[<<g, "x">>].cls = "DecoderNode"
            /\ graph.nodes[<<g, "x">>].needs = <<>>
            /\ \A i \in 1..Len(generators) :
                   (op.type = "fetch" /\ generators[i].key = <<g, "x">>) =>
                       generators[i].chunks =
                           read_stream(hist.pre[DbOf(g)], KeyOf(g, FetchedId))

\* nothing is compiled or run on account of a cached feature's own needs
NothingPastCached ==
    /\ {k[1] : k \in graph.keys} =
           NeededUncached({Fetched}, Len(FeatureKeys))
    /\ hist.invoked \subseteq graph.keys

\* every root of the partial graph is a DecoderNode
RootsAreDecoders ==
    \A k \in roots(graph) : graph.nodes[k].cls = "DecoderNode"

\* C32: in the partial graph of a fetch every store=True feature whose key is
\* in the database is a DecoderNode reading that entry, none of the needs of
\* such a feature is compiled or run on its account, and the roots of the
\* graph are exactly such DecoderNodes
C32_PartialGraph ==
    PartialBuilt =>
        /\ CachedAreDecoders
        /\ NothingPastCached
        /\ RootsAreDecoders

----------------------------------------------------------------------------
(* The properties of the compiled graph and of remove_dead_nodes *)

\* remove_dead_nodes was called; it returned
Removed == pc = "idle" /\ result.type = "remove"
RemoveReturned == Removed /\ result.status = "returned"

\* the keys the compilation of the class puts into the graph
CompiledKeys ==
    {<<f, "x">> : f \in GraphFeatures}
        \cup {<<f, r>> : f \in {g \in GraphFeatures : GraphFT[g].store},
                         r \in {"encoder", "writer"}}

RECURSIVE GraphUp(_, _)
\* the features of F and those they need, directly or through others
GraphUp(F, n) ==
    IF n = 0 THEN F
    ELSE GraphUp(F \cup {g \in GraphFeatures :
                            \E h \in F : g \in SeqToSet(GraphFT[h].needs)},
                 n - 1)

\* the nodes a store=True feature is computed and written with
KeptForStored ==
    UNION {{<<g, "x">> : g \in GraphUp({f}, Cardinality(GraphFeatures))}
               \cup {<<f, "encoder">>, <<f, "writer">>} :
                   f \in {h \in GraphFeatures : GraphFT[h].store}}

\* C33: when remove_dead_nodes returns, every leaf left in the graph is the
\* writer of a stored feature: no node of an unstored feature is a leaf,
\* whatever the shape of the graph and the order of the leaves
C33_FixedPoint ==
    RemoveReturned =>
        \A k \in leaves(graph) : k[2] = "writer" /\ GraphFT[k[1]].store

\* C33 witness: remove_dead_nodes returned after removing a node and then a
\* need of that node, leaving other nodes in the graph
C33_Witness ==
    /\ RemoveReturned
    /\ graph.keys # {}
    /\ \E f, g \in GraphFeatures :
           /\ g \in SeqToSet(GraphFT[f].needs)
           /\ <<f, "x">> \notin graph.keys
           /\ <<g, "x">> \notin graph.keys

\* every node of the graph is in it once: a node is among the listeners of a
\* node as often as it names that node in its needs, needs and listeners
\* are nodes of the graph, and a feature has an encoder and a writer, one of
\* each, exactly when it is stored
OneNodePerKey ==
    /\ DOMAIN graph.nodes = graph.keys
    /\ \A k \in graph.keys :
           /\ SeqToSet(graph.nodes[k].needs) \subseteq graph.keys
           /\ SeqToSet(graph.nodes[k].listeners) \subseteq graph.keys
           /\ \A U \in graph.keys :
                  Count(graph.nodes[U].listeners, k)
                      = Count(graph.nodes[k].needs, U)
    /\ \A f \in GraphFeatures :
           <<f, "x">> \in graph.keys =>
               /\ graph.nodes[<<f, "x">>].needs =
                      [i \in 1..Len(GraphFT[f].needs) |->
                          <<GraphFT[f].needs[i], "x">>]
               /\ <<f, "encoder">> \in graph.keys <=> GraphFT[f].store
               /\ <<f, "writer">> \in graph.keys <=> GraphFT[f].store
               /\ GraphFT[f].store =>
                      /\ graph.nodes[<<f, "encoder">>].needs = <<<<f, "x">>>>
                      /\ graph.nodes[<<f, "writer">>].needs
                             = <<<<f, "encoder">>>>

\* C34: compiling a feature whose key is in the graph already changes nothing,
\* and after every compilation each feature has one node, which all its
\* dependents share, and at most one encoder and one writer
C34_CompileIdempotent ==
    [][op'.type = "compile" =>
           /\ <<op'.feature, "x">> \in graph.keys => graph' = graph
           /\ OneNodePerKey']_vars

\* C34 witness: a diamond (d on b and c, both on a) has been compiled, a last
\* of all, when its node was in the graph already with b and c as listeners
C34_Witness ==
    /\ pc = "compile" /\ hist.keys = {}
    /\ op.type = "compile" /\ op.feature = "a"
    /\ GraphFT["b"].needs = <<"a">> /\ GraphFT["c"].needs = <<"a">>
    /\ GraphFT["d"].needs = <<"b", "c">>
    /\ ~GraphFT["a"].store
    /\ SeqToSet(graph.nodes[<<"a", "x">>].listeners)
           = {<<"b", "x">>, <<"c", "x">>}
    /\ Len(graph.nodes[<<"a", "x">>].listeners) = 2

\* C36: remove_dead_nodes raises nothing, whatever the graph and the order of
\* the leaves: no dead node is disconnected or deleted a second time
C36_RemoveNeverRaises == Removed => result.status = "returned"

\* C37: remove_dead_nodes removes no node a stored feature is computed or
\* written with, and when it returns every node left has its needs and its
\* listeners in the graph
C37_KeepsWhatIsNeeded ==
    /\ Removed => KeptForStored \subseteq graph.keys
    /\ RemoveReturned =>
           \A k \in graph.keys :
               /\ SeqToSet(graph.nodes[k].needs) \subseteq graph.keys
               /\ SeqToSet(graph.nodes[k].listeners) \subseteq graph.keys

\* C37 witness: remove_dead_nodes returned having removed a node whose need
\* stays in the graph, an unstored feature a stored one needs
C37_Witness ==
    /\ RemoveReturned
    /\ \E k \in CompiledKeys \ graph.keys :
           \E U \in SeqToSet(graph.nodes[k].needs) :
               /\ U \in graph.keys
               /\ ~GraphFT[U[1]].store

\* C38: a fetch that misses the cache for a feature that _can_compute accepts
\* never ends with the KeyError of a database, whichever entries the
\* databases hold, and returns a value unless a node raised
C38_NoKeyError ==
    (/\ FetchEnded
     /\ features[Bases].settings
     /\ ~CacheHit(hist.pre, result.feature, result._id)
     /\ _can_compute(result.feature)) =>
        /\ result.exc # "KeyError"
        /\ hist.thrown = {} => result.status = "returned"

\* C39: after a fetch in which a node raised, every database is what it was
\* before the fetch: the fetch leaves no entry it wrote
C39_FailedFetchLeavesNothing ==
    (FetchEnded /\ result.status = "raised" /\ hist.thrown # {}) =>
        database = hist.pre

----------------------------------------------------------------------------
(* The properties of a process that uses the id of an earlier one *)

\* C40: a process that raises leaves the entries which an earlier process
\* that returned stored under the same _id as they were.  (An entry with this
\* _id in the database of the model before the run comes from a process that
\* returned: a process that raised had its entries there deleted.)
C40_EarlierEntriesIntact ==
    (ProcessEnded /\ result.status = "raised") =>
        \A key \in DOMAIN hist.pre[ModelDb] :
            decompose(key)[1] = Str(result._id) =>
                /\ Contains(database[ModelDb], key)
                /\ database[ModelDb][key] = hist.pre[ModelDb][key]

====
